---- MODULE Spec2Model ----
(***************************************************************************)
(* Backup engine, compression + encryption codec and retention cleanup of  *)
(* the multi-platform bot system.                                          *)
(*                                                                         *)
(*   src/src/utils/backupUtils.js      BackupSystem                        *)
(*   src/unnamed/part_005              GCSUtils (object store client)      *)
(*   src/src/utils/dynamoDBUtils.js    DynamoDBUtils (record store client) *)
(*   src/src/utils/discordNotificationUtils.js  DiscordNotifications       *)
(*                                                                         *)
(* Byte buffers are sequences of small naturals.  gzip is modelled as a    *)
(* framing (magic byte, payload, length trailer) that gunzip checks and    *)
(* strips; AES-256-GCM as a counter-mode keystream plus an ideal MAC: the  *)
(* tag is an injective image of (key, IV, ciphertext).                     *)
(***************************************************************************)
EXTENDS Integers, Sequences, FiniteSets, TLC

\* ------------------------------------------------------------------ bounds
\* bytes range over 0 .. ByteBase-1
ByteBase == 2
\* longest plaintext buffer handed to the codec
MaxBufLen == 1
\* codec calls made on one BackupSystem / GCSUtils instance
MaxCalls == 2
\* interaction records in the record store
MaxRecords == 2
\* items per page of the paginated scan (Limit)
ScanLimit == 1
\* clock advances in one behaviour
MaxTicks == 2
\* rows in the backup table before a cleanup, and rows one scan page holds
MaxBackups == 3
MaxPageRows == 2
\* interaction records written while a backup runs
MaxWrites == 2
\* generateReport() runs
MaxReports == 2
\* updates one Telegram bot process handles
MaxUpdates == 3
\* isAllowed calls on one key beyond its limit
MaxExtraCalls == 2

\* ------------------------------------------------------- program constants
IV_LENGTH == 16
TAG_LENGTH == 16
\* first byte of a gzip member (zlib framing behind createGzip)
GZIP_MAGIC == 1
\* setTimeout(..., 100) before the metadata is built
SIGNED_URL_DELAY == 100

Byte == 0 .. (ByteBase - 1)
Keys == {0, 1}
\* the key configured in BACKUP_ENCRYPTION_KEY, and the outcomes of randomBytes(16)
ConfiguredKey == 0
IVs == {[i \in 1 .. IV_LENGTH |-> 0], [i \in 1 .. IV_LENGTH |-> IF i = 1 THEN 1 ELSE 0]}

\* --------------------------------------------------------------- JS values
JsBuffer(b) == [type |-> "buffer", bytes |-> b]
JsString(b) == [type |-> "string", bytes |-> b]
JsNull == [type |-> "null", bytes |-> <<>>]
JsUndefined == [type |-> "undefined", bytes |-> <<>>]
JsNumber == [type |-> "number", bytes |-> <<>>]

RECURSIVE SeqsUpTo(_, _)
SeqsUpTo(S, n) ==
    IF n = 0 THEN {<<>>}
    ELSE LET shorter == SeqsUpTo(S, n - 1)
         IN  shorter \cup {Append(s, x) : s \in {t \in shorter : Len(t) = n - 1}, x \in S}

Buffers == SeqsUpTo(Byte, MaxBufLen)
JsValues == {JsBuffer(b) : b \in Buffers} \cup {JsString(<<0>>), JsNull, JsUndefined, JsNumber}

\* Buffer.prototype.slice(start, end) with negative indices counted from the end
BufSlice(b, start, end) ==
    LET n  == Len(b)
        s0 == IF start < 0 THEN (IF n + start < 0 THEN 0 ELSE n + start)
              ELSE (IF start > n THEN n ELSE start)
        e0 == IF end < 0 THEN (IF n + end < 0 THEN 0 ELSE n + end)
              ELSE (IF end > n THEN n ELSE end)
    IN  IF e0 <= s0 THEN <<>> ELSE SubSeq(b, s0 + 1, e0)

\* ------------------------------------------------------------------- gzip
\* what a gzip stream emits for the bytes written to it
GzipBroken(b) == <<GZIP_MAGIC>> \o b
Gzip(b) == <<GZIP_MAGIC>> \o b \o <<Len(b) % ByteBase>>

\* what a gunzip stream emits: the payload, or an error on a malformed member;
\* an empty input ends the stream with no output and no error
Gunzip(d) ==
    IF d = <<>> THEN [ok |-> TRUE, out |-> <<>>]
    ELSE IF /\ Len(d) >= 2
            /\ d[1] = GZIP_MAGIC
            /\ d[Len(d)] = (Len(d) - 2) % ByteBase
         THEN [ok |-> TRUE, out |-> SubSeq(d, 2, Len(d) - 1)]
         ELSE [ok |-> FALSE, out |-> <<>>]

\* stream.end(chunk): null and undefined write nothing, a Buffer or string is
\* written, any other type raises ERR_INVALID_ARG_TYPE
StreamEnd(v) ==
    IF v.type \in {"null", "undefined"} THEN [ok |-> TRUE, bytes |-> <<>>]
    ELSE IF v.type \in {"buffer", "string"} THEN [ok |-> TRUE, bytes |-> v.bytes]
    ELSE [ok |-> FALSE, bytes |-> <<>>]

\* ------------------------------------------------------------ AES-256-GCM
KeyStream(key, iv, i) == (key + (IF Len(iv) > 0 THEN iv[1] ELSE 0) + i) % ByteBase
CtrEncrypt(key, iv, p) == [i \in 1 .. Len(p) |-> (p[i] + KeyStream(key, iv, i)) % ByteBase]
CtrDecrypt(key, iv, c) ==
    [i \in 1 .. Len(c) |-> (c[i] + ByteBase - KeyStream(key, iv, i)) % ByteBase]

RECURSIVE Num(_)
Num(s) == IF s = <<>> THEN 0 ELSE (s[1] + 1) + (ByteBase + 1) * Num(Tail(s))

\* the bytes of c at positions i, i + TAG_LENGTH, i + 2*TAG_LENGTH, ...
Lane(c, i) ==
    LET n == IF i > Len(c) THEN 0 ELSE ((Len(c) - i) \div TAG_LENGTH) + 1
    IN  [k \in 1 .. n |-> c[i + (k - 1) * TAG_LENGTH]]

\* cipher.getAuthTag(): TAG_LENGTH slots that together determine key, IV and ciphertext
AuthTag(key, iv, c) ==
    [i \in 1 .. TAG_LENGTH |->
        (Num(Lane(c, i)) * (ByteBase + 1) + (IF i <= Len(iv) THEN iv[i] + 1 ELSE 0)) * 2 + key]

\* GCSUtils.compressAndEncrypt: gzip, then iv || ciphertext || tag
compressAndEncrypt(data, key, iv) ==
    LET compressed == Gzip(data)
        encrypted  == CtrEncrypt(key, iv, compressed)
    IN  iv \o encrypted \o AuthTag(key, iv, encrypted)

\* GCSUtils.decryptAndDecompress: split at fixed offsets, decrypt, verify the tag
\* in decipher.final(), and only then gunzip.  "decompressed" records whether
\* decompressData was called.
CryptoFailure == [ok |-> FALSE, out |-> <<>>, err |-> "CryptoError", decompressed |-> FALSE]
decryptAndDecompressNoVerify(data, key) ==
    LET iv        == BufSlice(data, 0, IV_LENGTH)
        encrypted == BufSlice(data, IV_LENGTH, 0 - TAG_LENGTH)
        gunzipped == Gunzip(CtrDecrypt(key, iv, encrypted))
    IN  IF gunzipped.ok
        THEN [ok |-> TRUE, out |-> gunzipped.out, err |-> "none", decompressed |-> TRUE]
        ELSE [ok |-> FALSE, out |-> <<>>, err |-> "DecompressionError", decompressed |-> TRUE]
decryptAndDecompress(data, key) ==
    LET iv        == BufSlice(data, 0, IV_LENGTH)
        authTag   == BufSlice(data, 0 - TAG_LENGTH, Len(data))
        encrypted == BufSlice(data, IV_LENGTH, 0 - TAG_LENGTH)
        decrypted == CtrDecrypt(key, iv, encrypted)
        gunzipped == Gunzip(decrypted)
    IN  IF iv = <<>> \/ Len(authTag) # TAG_LENGTH THEN CryptoFailure
        ELSE IF authTag # AuthTag(key, iv, encrypted) THEN CryptoFailure
        ELSE IF gunzipped.ok
             THEN [ok |-> TRUE, out |-> gunzipped.out, err |-> "none", decompressed |-> TRUE]
             ELSE [ok |-> FALSE, out |-> <<>>, err |-> "DecompressionError",
                   decompressed |-> TRUE]

\* Buffer.isBuffer(data) ? data : Buffer.from(data)   (uploadFile)
ToBuffer(v) ==
    IF v.type \in {"buffer", "string"} THEN [ok |-> TRUE, bytes |-> v.bytes]
    ELSE [ok |-> FALSE, bytes |-> <<>>]

RECURSIVE Concat(_)
Concat(chunks) == IF chunks = <<>> THEN <<>> ELSE Head(chunks) \o Concat(Tail(chunks))

\* bucket.file(name).save(bytes): an object store keyed by name
BucketPut(b, name, bytes, timeCreated) ==
    {o \in b : o.name # name}
       \cup {[name |-> name, bytes |-> bytes, timeCreated |-> timeCreated]}

\* -------------------------------------------------------------- record store
Users == {0, 1}
Record(i, u) == [id |-> i, userId |-> u]
\* the stores a run can meet: records 1 .. n in key order, written by alternating users
StoreOf(n) == [i \in 1 .. n |-> Record(i, i % 2)]
Stores == {StoreOf(n) : n \in 0 .. MaxRecords}

\* a ScanCommand whose response never carries a LastEvaluatedKey
ScanPageFirstOnly(table, startKey, limit) ==
    LET rest == SelectSeq(table, LAMBDA r : r.id > startKey)
        n    == IF limit < Len(rest) THEN limit ELSE Len(rest)
    IN  [Items |-> SubSeq(rest, 1, n), LastEvaluatedKey |-> 0]

\* one ScanCommand: the items whose key follows ExclusiveStartKey in the table's key
\* order, at most Limit of them, and as LastEvaluatedKey the key of the last item when
\* the page was cut by the limit
ScanPage(table, startKey, limit) ==
    LET rest == SelectSeq(table, LAMBDA r : r.id > startKey)
        n    == IF limit < Len(rest) THEN limit ELSE Len(rest)
    IN  [Items |-> SubSeq(rest, 1, n),
         LastEvaluatedKey |-> IF n = limit THEN rest[n].id ELSE 0]

\* PutCommand of a new item: the table with the item at its place in the key order
PutInteraction(table, record) ==
    SelectSeq(table, LAMBDA r : r.id < record.id) \o <<record>>
       \o SelectSeq(table, LAMBDA r : r.id > record.id)

\* JSON.stringify(data) as bytes: "[", then per record its id in unary, a separator
\* and its userId, then "]"
RECURSIVE Zeros(_)
Zeros(n) == IF n = 0 THEN <<>> ELSE <<0>> \o Zeros(n - 1)
RECURSIVE StringifyItems(_)
StringifyItems(data) ==
    IF data = <<>> THEN <<>>
    ELSE Zeros(Head(data).id) \o <<1, Head(data).userId>> \o StringifyItems(Tail(data))
Stringify(data) == <<1>> \o StringifyItems(data) \o <<1>>

\* JSON.parse: the records, or a SyntaxError
RECURSIVE ParseItems(_, _)
ParseItems(b, zeros) ==
    IF b = <<>> THEN [ok |-> zeros = 0, data |-> <<>>]
    ELSE IF Head(b) = 0 THEN ParseItems(Tail(b), zeros + 1)
    ELSE IF Head(b) # 1 \/ zeros = 0 \/ Len(b) < 2 \/ b[2] \notin Users
         THEN [ok |-> FALSE, data |-> <<>>]
         ELSE LET rest == ParseItems(SubSeq(b, 3, Len(b)), 0)
              IN  [ok |-> rest.ok,
                   data |-> IF rest.ok THEN <<Record(zeros, b[2])>> \o rest.data ELSE <<>>]
Parse(b) ==
    IF Len(b) < 2 \/ b[1] # 1 \/ b[Len(b)] # 1 THEN [ok |-> FALSE, data |-> <<>>]
    ELSE ParseItems(SubSeq(b, 2, Len(b) - 1), 0)

\* ------------------------------------------------------------------- state
VARIABLES
    bucket,               \* object store: set of [name, bytes]
    backupTable,          \* DYNAMODB_BACKUP_TABLE: set of metadata rows, key backupId
    store,                \* DYNAMODB_TABLE_NAME: sequence of interaction records
    clock,                \* Date.now(), in ms
    ticks,                \* clock advances so far
    notifications,        \* messages accepted by the notification webhook, by sender
    run,                  \* performBackup() activations
    compressionChunks,    \* BackupSystem.#compressionChunks of the singleton
    decompressionChunks,  \* BackupSystem.#decompressionChunks of the singleton
    codec,                \* a direct caller of the codec and of uploadFile
    cleanup,              \* a cleanupOldBackups() activation
    limiter,              \* the rateLimiter singleton and the calls made on it
    adapter,              \* webhook activations of the platform adapters
    handler,              \* an activation of the scheduled-task handler
    telegram,             \* the Telegram bot process: tempTicketData and its activations
    report,               \* a generateReport() activation
    gcs                   \* the gcsUtils singleton: module load and its encryption key

envVars == <<bucket, backupTable, store, clock, ticks, notifications>>
botVars == <<limiter, adapter, handler, telegram, report, gcs>>
vars == <<bucket, backupTable, store, clock, ticks, notifications, run,
          compressionChunks, decompressionChunks, codec, cleanup,
          limiter, adapter, handler, telegram, report, gcs>>

\* process.env.BACKUP_ENCRYPTION_KEY: unset, or a string of "chars" characters whose
\* first "hexPrefix" characters are hexadecimal digits
KEY_LENGTH == 32
GoodKeyEnv == [defined |-> TRUE, chars |-> 2 * KEY_LENGTH, hexPrefix |-> 2 * KEY_LENGTH]
KeyEnvs ==
    {[defined |-> FALSE, chars |-> 0, hexPrefix |-> 0],
     [defined |-> TRUE, chars |-> 0, hexPrefix |-> 0],
     GoodKeyEnv,
     [defined |-> TRUE, chars |-> 2 * KEY_LENGTH - 2, hexPrefix |-> 2 * KEY_LENGTH - 2],
     [defined |-> TRUE, chars |-> 2 * KEY_LENGTH + 2, hexPrefix |-> 2 * KEY_LENGTH + 2],
     [defined |-> TRUE, chars |-> 2 * KEY_LENGTH, hexPrefix |-> 10]}
\* Buffer.from(string, 'hex'): one byte per pair of hexadecimal digits, up to the first
\* character that is none
HexDecode(env) == [length |-> env.hexPrefix \div 2]
\* new GCSUtils(): throws when the variable is unset or empty, else decodes the key
GcsConstruct(env) ==
    IF ~env.defined \/ env.chars = 0
    THEN [status |-> "failed", env |-> env, encryptionKey |-> [length |-> 0]]
    ELSE [status |-> "constructed", env |-> env, encryptionKey |-> HexDecode(env)]
GcsUnloaded == [status |-> "unloaded", env |-> GoodKeyEnv, encryptionKey |-> [length |-> 0]]
\* the singleton of a process started with a well-formed key
GcsConfigured == GcsConstruct(GoodKeyEnv)

NoResult == [ok |-> FALSE, out |-> <<>>, err |-> "pending", decompressed |-> FALSE]
Rejected(e) == [ok |-> FALSE, out |-> <<>>, err |-> e, decompressed |-> FALSE]
Resolved(b) == [ok |-> TRUE, out |-> b, err |-> "none", decompressed |-> FALSE]

CodecIdle(n) ==
    [pc |-> "idle", input |-> JsUndefined, zin |-> <<>>, compressed |-> <<>>,
     artifact |-> <<>>, name |-> <<"exports", 0>>, decKey |-> ConfiguredKey,
     tampered |-> FALSE, saved |-> FALSE, result |-> NoResult, calls |-> n]

Runs == {1, 2}
RunIdle ==
    [pc |-> "idle", items |-> <<>>, lastKey |-> 0, data |-> <<>>, zin |-> <<>>,
     compressed |-> <<>>, backupId |-> <<>>, path |-> <<>>, artifact |-> <<>>,
     timerAt |-> 0, metadata |-> <<>>, error |-> "none", outcome |-> "pending",
     thrown |-> "none", log |-> <<>>]

\* the promise of performBackup settles and the activation's locals are gone; what
\* stays is what the caller sees (the metadata returned or the error thrown), the
\* records the scan returned and the steps taken
Settle(r, outcome, thrown, step) ==
    [RunIdle EXCEPT !.pc = "done", !.outcome = outcome, !.thrown = thrown,
                    !.data = r.data, !.error = r.error,
                    !.metadata = IF outcome = "returned" THEN r.metadata ELSE <<>>,
                    !.log = Append(r.log, step)]

\* DynamoDBUtils.putItem on the backup table: one row per primary key backupId
TablePut(table, row) == {r \in table : r.backupId # row.backupId} \cup {row}

\* new Date(now).toISOString(): the calendar day and the time of that day in ms; ISO
\* strings of one format compare as the instants they denote
Today == 0
toISOString(now) == <<Today, now>>
IsoLess(a, b) == a[1] < b[1] \/ (a[1] = b[1] /\ a[2] < b[2])

\* `backup_${new Date().toISOString()}.gz` and `backups/${backupId}`
BackupId(now) == <<"backup_", now, ".gz">>
BackupPath(backupId) == <<"backups/">> \o backupId

\* ------------------------------------------------- BackupSystem.performBackup
\* The activations share the backupSystem singleton of one process.  Activations in
\* separate processes behave like activations here whose compressData calls do not
\* overlap.
\* time passes
Tick(d) ==
    /\ ticks < MaxTicks
    /\ clock' = clock + d
    /\ ticks' = ticks + 1
    /\ UNCHANGED <<bucket, backupTable, store, notifications, run,
                   compressionChunks, decompressionChunks, codec, cleanup, botVars>>

\* performBackup() is called: getAllData() -> DynamoDBUtils.scan starts
performBackup_call(p) ==
    /\ run[p].pc = "idle"
    /\ run' = [run EXCEPT ![p].pc = "scan"]
    /\ UNCHANGED <<envVars, compressionChunks, decompressionChunks, codec, cleanup, botVars>>

\* one iteration of the do/while in DynamoDBUtils.scan; a throwing ScanCommand
\* rejects the scan and performBackup enters its catch
scan_page(p, ok) ==
    /\ run[p].pc = "scan"
    /\ LET response == ScanPage(store, run[p].lastKey, ScanLimit)
           items    == run[p].items \o response.Items
       IN  run' = IF ~ok
                  THEN [run EXCEPT ![p].pc = "catch", ![p].error = "scan failed",
                                   ![p].log = Append(@, "scan failed")]
                  ELSE IF response.LastEvaluatedKey # 0
                  THEN [run EXCEPT ![p].items = items,
                                   ![p].lastKey = response.LastEvaluatedKey]
                  ELSE [run EXCEPT ![p].pc = "compress", ![p].items = items,
                                   ![p].data = items, ![p].log = Append(@, "scan")]
    /\ UNCHANGED <<envVars, compressionChunks, decompressionChunks, codec, cleanup, botVars>>

\* Buffer.from(JSON.stringify(data)); this.compressData(jsonBuffer) resets the shared
\* chunk list and ends the gzip stream with the buffer
backup_compress_begin(p) ==
    /\ run[p].pc = "compress"
    /\ compressionChunks' = <<>>
    /\ run' = [run EXCEPT ![p].pc = "gzipData",
                          ![p].zin = StreamEnd(JsBuffer(Stringify(run[p].data))).bytes]
    /\ UNCHANGED <<envVars, decompressionChunks, codec, cleanup, botVars>>

\* gzip 'data' pushes onto the shared chunk list; gzip 'error' rejects
backup_compress_data(p, ok) ==
    /\ run[p].pc = "gzipData"
    /\ IF ok
       THEN /\ compressionChunks' = Append(compressionChunks, Gzip(run[p].zin))
            /\ run' = [run EXCEPT ![p].pc = "gzipEnd"]
       ELSE /\ run' = [run EXCEPT ![p].pc = "catch", ![p].error = "gzip failed",
                                  ![p].log = Append(@, "compress failed")]
            /\ UNCHANGED compressionChunks
    /\ UNCHANGED <<envVars, decompressionChunks, codec, cleanup, botVars>>

\* gzip 'end' resolves with the concatenated chunk list; performBackup derives
\* backupId and path from the clock and calls gcsUtils.uploadFile(path, compressedData)
backup_compress_end(p) ==
    /\ run[p].pc = "gzipEnd"
    /\ run' = [run EXCEPT ![p].pc = "encrypt",
                          ![p].compressed = Concat(compressionChunks),
                          ![p].backupId = BackupId(clock),
                          ![p].path = BackupPath(BackupId(clock)),
                          ![p].log = Append(@, "compress")]
    /\ UNCHANGED <<envVars, compressionChunks, decompressionChunks, codec, cleanup, botVars>>

\* uploadFile: compressAndEncrypt(buffer) with a fresh IV; createCipheriv throws when
\* this.encryptionKey is not KEY_LENGTH bytes long
backup_encrypt(p, iv) ==
    /\ run[p].pc = "encrypt"
    /\ run' = IF gcs.encryptionKey.length = KEY_LENGTH
              THEN [run EXCEPT ![p].pc = "save",
                      ![p].artifact = compressAndEncrypt(
                                         ToBuffer(JsBuffer(run[p].compressed)).bytes,
                                         ConfiguredKey, iv),
                      ![p].log = Append(@, "encrypt")]
              ELSE [run EXCEPT ![p].pc = "catch", ![p].error = "Invalid key length",
                               ![p].log = Append(@, "encrypt failed")]
    /\ UNCHANGED <<envVars, compressionChunks, decompressionChunks, codec, cleanup, botVars>>

\* uploadFile: file.save(...) stores the artifact under the path, or throws
backup_save(p, ok) ==
    /\ run[p].pc = "save"
    /\ IF ok
       THEN /\ bucket' = BucketPut(bucket, run[p].path, run[p].artifact, toISOString(clock))
            /\ run' = [run EXCEPT ![p].pc = "sign", ![p].log = Append(@, "save")]
       ELSE /\ run' = [run EXCEPT ![p].pc = "catch", ![p].error = "save failed",
                                  ![p].log = Append(@, "save failed")]
            /\ UNCHANGED bucket
    /\ UNCHANGED <<backupTable, store, clock, ticks, notifications,
                   compressionChunks, decompressionChunks, codec, cleanup, botVars>>

\* uploadFile: file.getSignedUrl(...) returns or throws; on return performBackup
\* starts its 100 ms timer
backup_url(p, ok) ==
    /\ run[p].pc = "sign"
    /\ run' = IF ok
              THEN [run EXCEPT ![p].pc = "timer", ![p].timerAt = clock + SIGNED_URL_DELAY,
                               ![p].artifact = <<>>, ![p].log = Append(@, "upload")]
              ELSE [run EXCEPT ![p].pc = "catch", ![p].error = "url failed",
                               ![p].log = Append(@, "upload failed")]
    /\ UNCHANGED <<envVars, compressionChunks, decompressionChunks, codec, cleanup, botVars>>

\* a performBackup that builds the metadata without awaiting uploadFile
backup_timerUnawaited(p) ==
    /\ run[p].pc \in {"save", "sign", "timer"}
    /\ run' = [run EXCEPT ![p].pc = "putMeta",
                  ![p].metadata = [backupId |-> run[p].backupId, timestamp |-> toISOString(clock),
                                   status |-> "success",
                                   recordCount |-> Len(run[p].data),
                                   size |-> Len(run[p].compressed),
                                   path |-> run[p].path]]
    /\ UNCHANGED <<envVars, compressionChunks, decompressionChunks, codec, cleanup, botVars>>

\* the timer fires: the metadata object is built and saveBackupMetadata is called
backup_timer(p) ==
    /\ run[p].pc = "timer"
    /\ clock >= run[p].timerAt
    /\ run' = [run EXCEPT ![p].pc = "putMeta",
                  ![p].metadata = [backupId |-> run[p].backupId, timestamp |-> toISOString(clock),
                                   status |-> "success",
                                   recordCount |-> Len(run[p].data),
                                   size |-> Len(run[p].compressed),
                                   path |-> run[p].path]]
    /\ UNCHANGED <<envVars, compressionChunks, decompressionChunks, codec, cleanup, botVars>>

\* saveBackupMetadata: DynamoDBUtils.putItem on the backup table, or it throws
backup_putMeta(p, ok) ==
    /\ run[p].pc = "putMeta"
    /\ IF ok
       THEN /\ backupTable' = TablePut(backupTable, run[p].metadata)
            /\ run' = [run EXCEPT ![p].pc = "notifyOk", ![p].log = Append(@, "metadata")]
       ELSE /\ run' = [run EXCEPT ![p].pc = "catch", ![p].error = "put failed",
                                  ![p].log = Append(@, "metadata failed")]
            /\ UNCHANGED backupTable
    /\ UNCHANGED <<bucket, store, clock, ticks, notifications,
                   compressionChunks, decompressionChunks, codec, cleanup, botVars>>

\* await sendBackupNotification({success: true, ...}): the webhook accepts the message
\* and performBackup returns the metadata, or the send throws into the catch block
backup_notifySuccess(p, ok) ==
    /\ run[p].pc = "notifyOk"
    /\ IF ok
       THEN /\ notifications' = [notifications EXCEPT ![p] = Append(@,
                                       [success |-> TRUE, error |-> "none",
                                        size |-> Len(run[p].compressed),
                                        records |-> Len(run[p].data)])]
            /\ run' = [run EXCEPT ![p] = Settle(@, "returned", "none", "notify success")]
       ELSE /\ run' = [run EXCEPT ![p].pc = "catch", ![p].error = "webhook failed",
                                  ![p].log = Append(@, "notify success failed")]
            /\ UNCHANGED notifications
    /\ UNCHANGED <<bucket, backupTable, store, clock, ticks,
                   compressionChunks, decompressionChunks, codec, cleanup, botVars>>

\* catch (error): await sendBackupNotification({success: false, error: message});
\* then throw error.  A throwing send replaces the error that reaches the caller.
backup_catch(p, ok) ==
    /\ run[p].pc = "catch"
    /\ IF ok
       THEN /\ notifications' = [notifications EXCEPT ![p] = Append(@,
                                       [success |-> FALSE, error |-> run[p].error,
                                        size |-> 0, records |-> 0])]
            /\ run' = [run EXCEPT ![p] = Settle(@, "rejected", run[p].error, "notify failure")]
       ELSE /\ run' = [run EXCEPT ![p] = Settle(@, "rejected", "webhook failed",
                                                "notify failure failed")]
            /\ UNCHANGED notifications
    /\ UNCHANGED <<bucket, backupTable, store, clock, ticks,
                   compressionChunks, decompressionChunks, codec, cleanup, botVars>>

Init ==
    /\ bucket = {} /\ backupTable = {}
    /\ store \in Stores
    /\ clock = 0 /\ ticks = 0 /\ notifications = [p \in Runs |-> <<>>]
    /\ run = [p \in Runs |-> RunIdle]
    /\ compressionChunks = <<>>
    /\ decompressionChunks = <<>>
    /\ codec = CodecIdle(0)
    /\ cleanup = <<>>
    /\ limiter = <<>> /\ adapter = <<>> /\ handler = <<>> /\ telegram = <<>> /\ report = <<>>
    /\ gcs = GcsConfigured

Next ==
    \/ \E d \in {SIGNED_URL_DELAY} : Tick(d)
    \/ \E p \in Runs : performBackup_call(p)
    \/ \E p \in Runs, ok \in BOOLEAN : scan_page(p, ok)
    \/ \E p \in Runs : backup_compress_begin(p)
    \/ \E p \in Runs, ok \in BOOLEAN : backup_compress_data(p, ok)
    \/ \E p \in Runs : backup_compress_end(p)
    \/ \E p \in Runs, iv \in IVs : backup_encrypt(p, iv)
    \/ \E p \in Runs, ok \in BOOLEAN : backup_save(p, ok)
    \/ \E p \in Runs, ok \in BOOLEAN : backup_url(p, ok)
    \/ \E p \in Runs : backup_timer(p)
    \/ \E p \in Runs, ok \in BOOLEAN : backup_putMeta(p, ok)
    \/ \E p \in Runs, ok \in BOOLEAN : backup_notifySuccess(p, ok)
    \/ \E p \in Runs, ok \in BOOLEAN : backup_catch(p, ok)

Spec == Init /\ [][Next]_vars

\* ------------------------------------------------ properties of performBackup
Range(f) == {f[i] : i \in DOMAIN f}
Settled(p) == run[p].pc = "done"
Returned(p) == Settled(p) /\ run[p].outcome = "returned"
RejectedRun(p) == Settled(p) /\ run[p].outcome = "rejected"
MetadataWritten(p) == "metadata" \in Range(run[p].log)
ObjectsAt(path) == {o \in bucket : o.name = path}
StepErrors == {"scan failed", "gzip failed", "save failed", "url failed"}

\* gcsUtils.downloadFile(fileName): file.download() then decryptAndDecompress
downloadFile(fileName) ==
    IF ObjectsAt(fileName) = {} THEN Rejected("NotFound")
    ELSE decryptAndDecompress((CHOOSE o \in ObjectsAt(fileName) : TRUE).bytes, ConfiguredKey)

\* restore from a metadata row: download the artifact at its path, split, decrypt with
\* tag verification, decompress, deserialize
Restore(metadata) ==
    LET file == downloadFile(metadata.path)
    IN  IF file.ok THEN Parse(file.out) ELSE [ok |-> FALSE, data |-> <<>>]

\* C1: performBackup() is atomic for its caller: a settled run either returned its
\* metadata, with the success row written and the artifact present at metadata.path,
\* or it rejected and wrote no metadata row.
C1_Atomic ==
    \A p \in Runs :
        Settled(p) =>
            \/ /\ Returned(p)
               /\ MetadataWritten(p)
               /\ run[p].metadata.status = "success"
               /\ ObjectsAt(run[p].metadata.path) # {}
            \/ /\ RejectedRun(p)
               /\ ~MetadataWritten(p)

\* C2: when the scan, the compression or the upload throws, no later step of the run
\* executes, exactly one failure notification carrying that error's message is sent,
\* and performBackup() rejects with that same error.
C2_AbortOnStepFailure ==
    \A p \in Runs :
        (Settled(p) /\ run[p].error \in StepErrors) =>
            /\ run[p].outcome = "rejected"
            /\ run[p].thrown = run[p].error
            /\ Len(notifications[p]) = 1
            /\ ~notifications[p][1].success
            /\ notifications[p][1].error = run[p].error
            /\ ~MetadataWritten(p)
            /\ run[p].log[Len(run[p].log)] = "notify failure"

\* C3: a failure of the notification sink never changes the outcome: a run whose upload
\* and metadata write succeeded returns its metadata, and a run whose step failed
\* rejects with that step's error.
C3_NotifyFailureHarmless ==
    \A p \in Runs :
        Settled(p) =>
            /\ MetadataWritten(p) => Returned(p)
            /\ run[p].error \in (StepErrors \cup {"put failed"}) =>
                   (RejectedRun(p) /\ run[p].thrown = run[p].error)

\* C4: every successful run has its own metadata row and its own artifact: the rows of
\* successful runs have pairwise distinct backupId, their artifacts pairwise distinct
\* paths, and the table and the bucket hold one row and one artifact per successful run.
C4_OwnRowAndArtifact ==
    LET ok == {p \in Runs : Returned(p)}
    IN  /\ \A p, q \in ok :
              p # q => /\ run[p].metadata.backupId # run[q].metadata.backupId
                       /\ run[p].metadata.path # run[q].metadata.path
        /\ Cardinality({r \in backupTable : \E p \in ok : r.backupId = run[p].metadata.backupId})
              = Cardinality(ok)
        /\ Cardinality({o \in bucket : \E p \in ok : o.name = run[p].metadata.path})
              = Cardinality(ok)

\* C5: restoring from the metadata a successful run returned yields exactly the records
\* of the store the run backed up.
C5_RestoreYieldsRecords ==
    \A p \in Runs :
        Returned(p) => (Restore(run[p].metadata).ok /\ Restore(run[p].metadata).data = store)

\* C6: the metadata returned by a successful run describes the stored artifact: status
\* success, recordCount the number of scanned records, path the path of the upload, and
\* size the byte length (> 0) of the artifact stored at that path.
C6_MetadataDescribesArtifact ==
    \A p \in Runs :
        Returned(p) =>
            /\ run[p].metadata.status = "success"
            /\ run[p].metadata.recordCount = Len(run[p].data)
            /\ ObjectsAt(run[p].metadata.path) # {}
            /\ \A o \in ObjectsAt(run[p].metadata.path) :
                   run[p].metadata.size = Len(o.bytes) /\ Len(o.bytes) > 0

\* ----------------------------------------------- codec, called directly
\* gcsUtils.compressAndEncrypt(data) with a fresh IV
compressAndEncrypt_call(b, iv) ==
    /\ codec.pc = "idle" /\ codec.calls < MaxCalls
    /\ codec' = [codec EXCEPT !.pc = "encoded", !.input = JsBuffer(b),
                              !.artifact = compressAndEncrypt(b, ConfiguredKey, iv),
                              !.calls = @ + 1]
    /\ UNCHANGED <<envVars, run, compressionChunks, decompressionChunks, cleanup, botVars>>

\* the stored artifact is altered in one position (IV, ciphertext or tag)
Flip(art, i) ==
    IF i > Len(art) - TAG_LENGTH THEN art[i] + 1 ELSE (art[i] + 1) % ByteBase
Tamper(i) ==
    /\ codec.pc = "encoded" /\ ~codec.tampered
    /\ i \in 1 .. Len(codec.artifact)
    /\ codec' = [codec EXCEPT !.artifact = [codec.artifact EXCEPT ![i] = Flip(codec.artifact, i)],
                              !.tampered = TRUE]
    /\ UNCHANGED <<envVars, run, compressionChunks, decompressionChunks, cleanup, botVars>>

\* the artifact is read by an instance configured with another key
Rekey(k) ==
    /\ codec.pc = "encoded" /\ codec.decKey = ConfiguredKey /\ k # ConfiguredKey
    /\ codec' = [codec EXCEPT !.decKey = k]
    /\ UNCHANGED <<envVars, run, compressionChunks, decompressionChunks, cleanup, botVars>>

\* gcsUtils.decryptAndDecompress(data)
decryptAndDecompress_call ==
    /\ codec.pc = "encoded"
    /\ codec' = [codec EXCEPT !.pc = "decoded",
                              !.result = decryptAndDecompress(codec.artifact, codec.decKey)]
    /\ UNCHANGED <<envVars, run, compressionChunks, decompressionChunks, cleanup, botVars>>

\* BackupSystem.compressData(data): reset the chunk list, gzip.end(data)
compressData_begin(v) ==
    /\ codec.pc = "idle" /\ codec.calls < MaxCalls
    /\ compressionChunks' = <<>>
    /\ codec' = IF StreamEnd(v).ok
                THEN [codec EXCEPT !.pc = "gzipData", !.input = v,
                                   !.zin = StreamEnd(v).bytes, !.calls = @ + 1]
                ELSE [codec EXCEPT !.pc = "rejected", !.input = v,
                                   !.result = Rejected("TypeError"), !.calls = @ + 1]
    /\ UNCHANGED <<envVars, run, decompressionChunks, cleanup, botVars>>

\* gzip 'data': push the chunk
compressData_data ==
    /\ codec.pc = "gzipData"
    /\ compressionChunks' = Append(compressionChunks, Gzip(codec.zin))
    /\ codec' = [codec EXCEPT !.pc = "gzipEnd"]
    /\ UNCHANGED <<envVars, run, decompressionChunks, cleanup, botVars>>

\* gzip 'end': resolve with the concatenated chunks
compressData_end ==
    /\ codec.pc = "gzipEnd"
    /\ codec' = [codec EXCEPT !.pc = "compressed",
                              !.compressed = Concat(compressionChunks)]
    /\ UNCHANGED <<envVars, run, compressionChunks, decompressionChunks, cleanup, botVars>>

\* BackupSystem.decompressData(data): reset the chunk list, gunzip.end(data)
decompressData_begin ==
    /\ codec.pc = "compressed"
    /\ decompressionChunks' = <<>>
    /\ codec' = [codec EXCEPT !.pc = "gunzipData"]
    /\ UNCHANGED <<envVars, run, compressionChunks, cleanup, botVars>>

\* gunzip 'data' (push the chunk) or 'error' (reject)
decompressData_data ==
    /\ codec.pc = "gunzipData"
    /\ LET g == Gunzip(codec.compressed)
       IN  IF g.ok
           THEN /\ decompressionChunks' = Append(decompressionChunks, g.out)
                /\ codec' = [codec EXCEPT !.pc = "gunzipEnd"]
           ELSE /\ codec' = [codec EXCEPT !.pc = "rejected",
                                         !.result = Rejected("DecompressionError")]
                /\ UNCHANGED decompressionChunks
    /\ UNCHANGED <<envVars, run, compressionChunks, cleanup, botVars>>

\* gunzip 'end': resolve with the concatenated chunks
decompressData_end ==
    /\ codec.pc = "gunzipEnd"
    /\ codec' = [codec EXCEPT !.pc = "decompressed",
                              !.result = Resolved(Concat(decompressionChunks))]
    /\ UNCHANGED <<envVars, run, compressionChunks, decompressionChunks, cleanup, botVars>>

\* gcsUtils.uploadFile(fileName, data), up to the await of file.save
uploadFile_encrypt(v, iv) ==
    /\ codec.pc = "idle" /\ codec.calls < MaxCalls
    /\ codec' = IF ToBuffer(v).ok
                THEN [codec EXCEPT !.pc = "saving", !.input = v, !.calls = @ + 1,
                         !.artifact = compressAndEncrypt(ToBuffer(v).bytes, ConfiguredKey, iv)]
                ELSE [codec EXCEPT !.pc = "rejected", !.input = v, !.calls = @ + 1,
                         !.result = Rejected("TypeError")]
    /\ UNCHANGED <<envVars, run, compressionChunks, decompressionChunks, cleanup, botVars>>

\* file.save(compressedData, ...) succeeds or throws
uploadFile_save(ok) ==
    /\ codec.pc = "saving"
    /\ IF ok
       THEN /\ bucket' = BucketPut(bucket, codec.name, codec.artifact, toISOString(clock))
            /\ codec' = [codec EXCEPT !.pc = "signing", !.saved = TRUE]
       ELSE /\ codec' = [codec EXCEPT !.pc = "rejected", !.result = Rejected("ObjectStoreError")]
            /\ UNCHANGED bucket
    /\ UNCHANGED <<backupTable, store, clock, ticks, notifications, run,
                   compressionChunks, decompressionChunks, cleanup, botVars>>

\* file.getSignedUrl(...) succeeds or throws
uploadFile_url(ok) ==
    /\ codec.pc = "signing"
    /\ codec' = IF ok THEN [codec EXCEPT !.pc = "uploaded", !.result = Resolved(<<>>)]
                ELSE [codec EXCEPT !.pc = "rejected", !.result = Rejected("ObjectStoreError")]
    /\ UNCHANGED <<envVars, run, compressionChunks, decompressionChunks, cleanup, botVars>>

\* the caller's promise has settled; it may call again
CodecSettled == codec.pc \in {"decoded", "decompressed", "uploaded", "rejected"}
codec_return ==
    /\ CodecSettled /\ codec.calls < MaxCalls
    /\ codec' = CodecIdle(codec.calls)
    /\ UNCHANGED <<envVars, run, compressionChunks, decompressionChunks, cleanup, botVars>>

InitCodec ==
    /\ bucket = {} /\ backupTable = {} /\ store = <<>>
    /\ clock = 0 /\ ticks = 0 /\ notifications = [p \in Runs |-> <<>>]
    /\ run = <<>>
    /\ compressionChunks = <<>>
    /\ decompressionChunks = <<>>
    /\ codec = CodecIdle(0)
    /\ cleanup = <<>>
    /\ limiter = <<>> /\ adapter = <<>> /\ handler = <<>> /\ telegram = <<>> /\ report = <<>>
    /\ gcs = GcsConfigured

NextCodec ==
    \/ \E b \in Buffers, iv \in IVs : compressAndEncrypt_call(b, iv)
    \/ decryptAndDecompress_call
    \/ \E v \in JsValues : compressData_begin(v)
    \/ compressData_data
    \/ compressData_end
    \/ decompressData_begin
    \/ decompressData_data
    \/ decompressData_end
    \/ \E v \in JsValues, iv \in IVs : uploadFile_encrypt(v, iv)
    \/ \E ok \in BOOLEAN : uploadFile_save(ok)
    \/ \E ok \in BOOLEAN : uploadFile_url(ok)
    \/ codec_return

SpecCodec == InitCodec /\ [][NextCodec]_vars

\* a produced artifact is altered, or read under another key, before it is decoded
NextTamper ==
    \/ \E b \in Buffers, iv \in IVs : compressAndEncrypt_call(b, iv)
    \/ \E i \in 1 .. (IV_LENGTH + TAG_LENGTH + MaxBufLen + 2) : Tamper(i)
    \/ \E k \in Keys : Rekey(k)
    \/ decryptAndDecompress_call

SpecTamper == InitCodec /\ [][NextTamper]_vars

\* ------------------------------------------------------- retention cleanup
\* process.env.BACKUP_RETENTION_DAYS: unset, or a string
RetentionEnvs == {"unset", "29", "abc"}
DEFAULT_RETENTION_DAYS == 30
BATCH_SIZE == 25

\* parseInt(process.env.BACKUP_RETENTION_DAYS || '30'): a number, or NaN
parseInt(env) ==
    CASE env = "unset" -> [nan |-> FALSE, n |-> DEFAULT_RETENTION_DAYS]
      [] env = "29"    -> [nan |-> FALSE, n |-> 29]
      [] OTHER         -> [nan |-> TRUE, n |-> 0]

\* cutoffDate.setDate(cutoffDate.getDate() - retentionDays); toISOString()
CutoffDate(now, retentionDays) == <<now[1] - retentionDays, now[2]>>

\* rows of the backup table as earlier runs of performBackup left them
RowAges == {0, 29, 30, 31}
BackupRow(i, age) ==
    [backupId |-> BackupId(i), timestamp |-> <<Today - age, 0>>, status |-> "success",
     recordCount |-> 0, size |-> 0, path |-> BackupPath(BackupId(i))]
BackupTables ==
    UNION {{ {BackupRow(i, ages[i]) : i \in 1..n} : ages \in [1..n -> RowAges]} : n \in 0..MaxBackups}

Min(a, b) == IF a < b THEN a ELSE b

\* the items of a set of rows as the array the scan response carries
RECURSIVE ToArray(_)
ToArray(rows) ==
    IF rows = {} THEN <<>>
    ELSE LET r == CHOOSE x \in rows : \A y \in rows : x.backupId[2] <= y.backupId[2]
         IN  <<r>> \o ToArray(rows \ {r})

\* for (i = 0; i < items.length; i += 25) batches.push(items.slice(i, i + 25) keys)
Batches(items) ==
    [k \in 1..((Len(items) + BATCH_SIZE - 1) \div BATCH_SIZE) |->
        {items[j].backupId : j \in ((k - 1) * BATCH_SIZE + 1)..Min(k * BATCH_SIZE, Len(items))}]

\* GCSUtils.cleanupOldBackups(retentionDays = 30) activation
GCS_RETENTION_DAYS == 30
GcsCleanupIdle ==
    [pc |-> "idle", cutoffDate |-> <<>>, oldFiles |-> {}, pending |-> {},
     outcome |-> "none", deletedCount |-> 0]

\* fileName.startsWith(prefix), names being sequences of name parts: 'backups/...'
\* does not start with 'backup_'
StartsWith(name, prefix) == Len(name) > 0 /\ name[1] = prefix

\* bucket.getFiles({ prefix }): the names of the objects under the prefix
getFiles(prefix) == {o \in bucket : StartsWith(o.name, prefix)}

\* the artifact an earlier performBackup over the empty store left at the row's path,
\* and a file a caller of uploadFile stored under the name 'backup_...' 31 days ago
ArtifactOf(row) ==
    [name |-> row.path,
     bytes |-> compressAndEncrypt(Gzip(Stringify(<<>>)), ConfiguredKey,
                                  CHOOSE iv \in IVs : TRUE),
     timeCreated |-> row.timestamp]
RootFile ==
    [name |-> BackupId(0), bytes |-> <<>>, timeCreated |-> <<Today - 31, 0>>]

CleanupIdle(env) ==
    [pc |-> "idle", env |-> env, cutoffDate |-> <<>>, before |-> {}, items |-> <<>>,
     batches |-> <<>>, pending |-> {}, outcome |-> "none", deletedCount |-> 0,
     error |-> "none", gcs |-> GcsCleanupIdle]

\* cleanupOldBackups(): retention from the environment, cutoff from the clock; an
\* unparsable retention gives an invalid date, whose toISOString() throws
cleanupOldBackups_call ==
    /\ cleanup.pc = "idle"
    /\ IF parseInt(cleanup.env).nan
       THEN cleanup' = [cleanup EXCEPT !.pc = "done", !.outcome = "rejected",
                                       !.error = "Invalid time value",
                                       !.before = backupTable]
       ELSE cleanup' = [cleanup EXCEPT !.pc = "scan", !.before = backupTable,
                           !.cutoffDate = CutoffDate(toISOString(clock), parseInt(cleanup.env).n)]
    /\ UNCHANGED <<envVars, run, compressionChunks, decompressionChunks, codec, botVars>>

\* one ScanCommand with the filter #timestamp < :cutoffDate: the response carries the
\* matching rows of one page of the table (LastEvaluatedKey is not read), or the send
\* throws; no item means { success: true, deletedCount: 0 }
cleanup_scan(page, ok) ==
    /\ cleanup.pc = "scan"
    /\ page \subseteq backupTable
    /\ Cardinality(page) = Min(MaxPageRows, Cardinality(backupTable))
    /\ LET items == ToArray({r \in page : IsoLess(r.timestamp, cleanup.cutoffDate)})
       IN  cleanup' =
             IF ~ok THEN [cleanup EXCEPT !.pc = "done", !.outcome = "rejected",
                                         !.error = "scan failed"]
             ELSE IF Len(items) = 0
             THEN [cleanup EXCEPT !.pc = "done", !.outcome = "returned", !.deletedCount = 0]
             ELSE [cleanup EXCEPT !.pc = "write", !.items = items,
                                  !.batches = Batches(items),
                                  !.pending = DOMAIN Batches(items)]
    /\ UNCHANGED <<envVars, run, compressionChunks, decompressionChunks, codec, botVars>>

\* one BatchWriteCommand of Promise.all settles: the table deletes the keys it
\* processed, the rest come back as UnprocessedItems (not read); or the send throws
\* and Promise.all rejects
cleanup_batchWrite(k, unprocessed, ok) ==
    /\ cleanup.pc = "write"
    /\ k \in cleanup.pending
    /\ unprocessed \subseteq cleanup.batches[k]
    /\ IF ok
       THEN /\ backupTable' = {r \in backupTable :
                                  r.backupId \notin (cleanup.batches[k] \ unprocessed)}
            /\ cleanup' = [cleanup EXCEPT !.pending = @ \ {k}]
       ELSE /\ cleanup' = [cleanup EXCEPT !.pc = "done", !.outcome = "rejected",
                                          !.error = "batch write failed"]
            /\ UNCHANGED backupTable
    /\ UNCHANGED <<bucket, store, clock, ticks, notifications, run,
                   compressionChunks, decompressionChunks, codec, botVars>>

\* return { success: true, deletedCount: items.length }
cleanup_return ==
    /\ cleanup.pc = "write"
    /\ cleanup.pending = {}
    /\ cleanup' = [cleanup EXCEPT !.pc = "done", !.outcome = "returned",
                                  !.deletedCount = Len(cleanup.items)]
    /\ UNCHANGED <<envVars, run, compressionChunks, decompressionChunks, codec, botVars>>

\* GCSUtils.cleanupOldBackups: cutoff from the clock and the retention argument
gcs_cleanup_call(retentionDays) ==
    /\ cleanup.gcs.pc = "idle"
    /\ cleanup' = [cleanup EXCEPT !.gcs.pc = "list",
                      !.gcs.cutoffDate = CutoffDate(toISOString(clock), retentionDays)]
    /\ UNCHANGED <<envVars, run, compressionChunks, decompressionChunks, codec, botVars>>

\* getFiles({ prefix: 'backup_' }) and the filter on metadata.timeCreated, or getFiles
\* throws and the error is rethrown
gcs_cleanup_list(ok) ==
    /\ cleanup.gcs.pc = "list"
    /\ LET oldFiles == {o.name : o \in {f \in getFiles("backup_") :
                                          IsoLess(f.timeCreated, cleanup.gcs.cutoffDate)}}
       IN  cleanup' =
             IF ok THEN [cleanup EXCEPT !.gcs.pc = "delete", !.gcs.oldFiles = oldFiles,
                                        !.gcs.pending = oldFiles]
             ELSE [cleanup EXCEPT !.gcs.pc = "done", !.gcs.outcome = "rejected"]
    /\ UNCHANGED <<envVars, run, compressionChunks, decompressionChunks, codec, botVars>>

\* one file.delete() of Promise.all settles: the object is gone, or the call throws
gcs_cleanup_delete(name, ok) ==
    /\ cleanup.gcs.pc = "delete"
    /\ name \in cleanup.gcs.pending
    /\ IF ok
       THEN /\ bucket' = {o \in bucket : o.name # name}
            /\ cleanup' = [cleanup EXCEPT !.gcs.pending = @ \ {name}]
       ELSE /\ cleanup' = [cleanup EXCEPT !.gcs.pc = "done", !.gcs.outcome = "rejected"]
            /\ UNCHANGED bucket
    /\ UNCHANGED <<backupTable, store, clock, ticks, notifications, run,
                   compressionChunks, decompressionChunks, codec, botVars>>

\* return { success: true, deletedCount: oldFiles.length }
gcs_cleanup_return ==
    /\ cleanup.gcs.pc = "delete"
    /\ cleanup.gcs.pending = {}
    /\ cleanup' = [cleanup EXCEPT !.gcs.pc = "done", !.gcs.outcome = "returned",
                      !.gcs.deletedCount = Cardinality(cleanup.gcs.oldFiles)]
    /\ UNCHANGED <<envVars, run, compressionChunks, decompressionChunks, codec, botVars>>

InitCleanup ==
    /\ backupTable \in BackupTables
    /\ bucket \in {{ArtifactOf(r) : r \in backupTable} \cup extra : extra \in SUBSET {RootFile}}
    /\ store = <<>>
    /\ clock = 0
    /\ ticks = 0
    /\ notifications = [p \in Runs |-> <<>>]
    /\ run = <<>>
    /\ compressionChunks = <<>>
    /\ decompressionChunks = <<>>
    /\ codec = CodecIdle(0)
    /\ cleanup \in {CleanupIdle(env) : env \in RetentionEnvs}
    /\ limiter = <<>> /\ adapter = <<>> /\ handler = <<>> /\ telegram = <<>> /\ report = <<>>
    /\ gcs = GcsConfigured

NextCleanup ==
    \/ cleanupOldBackups_call
    \/ \E page \in SUBSET backupTable, ok \in BOOLEAN : cleanup_scan(page, ok)
    \/ \E k \in cleanup.pending, ok \in BOOLEAN :
          \E unprocessed \in SUBSET cleanup.batches[k] : cleanup_batchWrite(k, unprocessed, ok)
    \/ cleanup_return
    \/ \E retentionDays \in {GCS_RETENTION_DAYS} : gcs_cleanup_call(retentionDays)
    \/ \E ok \in BOOLEAN : gcs_cleanup_list(ok)
    \/ \E name \in cleanup.gcs.pending, ok \in BOOLEAN : gcs_cleanup_delete(name, ok)
    \/ gcs_cleanup_return

SpecCleanup == InitCleanup /\ [][NextCleanup]_vars

\* ------------------------------------------------------------- rate limiter
WINDOW == 60000
LIMIT_MESSAGE == 30
LIMIT_COMMAND == 10
LIMIT_EXPORT == 2
LIMIT_DEFAULT == 10

LimiterUsers == {0, 1}
LimiterActions == {"message", "command", "export", "report"}
LimiterKeys == LimiterUsers \X LimiterActions

\* limits[action] || 10
Limit(action) ==
    CASE action = "message" -> LIMIT_MESSAGE
      [] action = "command" -> LIMIT_COMMAND
      [] action = "export"  -> LIMIT_EXPORT
      [] OTHER              -> LIMIT_DEFAULT

\* times.filter(time => now - time < 60000)
RecentNone(times, now) == <<>>
RecentFixedWindow(times, now) ==
    SelectSeq(times, LAMBDA time : time \div WINDOW = now \div WINDOW)
Recent(times, now) == SelectSeq(times, LAMBDA time : now - time < WINDOW)

\* this.requests.get(key) || [], this.requests.set(key, v), this.requests.delete(key)
MapGet(m, key) == IF key \in DOMAIN m THEN m[key] ELSE <<>>
MapSet(m, key, v) == [k \in DOMAIN m \cup {key} |-> IF k = key THEN v ELSE m[k]]
MapDelete(m, key) == [k \in DOMAIN m \ {key} |-> m[k]]
EmptyMap == [k \in {} |-> <<>>]

\* isAllowed(userId, action) at time now on the map m: the value returned and the
\* map left behind
isAllowedResultLax(m, key, now) == Len(Recent(MapGet(m, key), now)) <= Limit(key[2])
isAllowedResult(m, key, now) == Len(Recent(MapGet(m, key), now)) < Limit(key[2])
isAllowedMapEager(m, key, now) ==
    MapSet(m, key, Append(Recent(MapGet(m, key), now), now))
isAllowedLossy(m, key, now) ==
    IF isAllowedResult(m, key, now) THEN MapSet(m, key, <<now>>) ELSE m
isAllowedMapUnpruned(m, key, now) ==
    IF isAllowedResult(m, key, now) THEN MapSet(m, key, Append(MapGet(m, key), now)) ELSE m
isAllowedMap(m, key, now) ==
    IF isAllowedResult(m, key, now)
    THEN MapSet(m, key, Append(Recent(MapGet(m, key), now), now))
    ELSE m

\* cleanup() at time now: one pass over the entries of the map
RECURSIVE cleanupEntries(_, _, _)
cleanupEntries(m, keys, now) ==
    IF keys = {} THEN m
    ELSE LET key == CHOOSE k \in keys : TRUE
             recentTimes == Recent(m[key], now)
         IN  cleanupEntries(IF Len(recentTimes) = 0 THEN MapDelete(m, key)
                            ELSE MapSet(m, key, recentTimes),
                            keys \ {key}, now)
cleanupGreedy(m, now) == EmptyMap
cleanupMap(m, now) == cleanupEntries(m, DOMAIN m, now)

NoCall == [op |-> "none", key |-> <<>>, now |-> 0, result |-> FALSE,
           reference |-> FALSE, before |-> EmptyMap]

\* new RateLimiter() after the admitted calls "earlier" (each at time 0), and the key
\* the calls of this behaviour are made on
LimiterIdle(focus, earlier) ==
    [requests |-> [k \in earlier |-> <<0>>], reference |-> [k \in earlier |-> <<0>>],
     admitted |-> [k \in LimiterKeys |-> IF k \in earlier THEN <<0>> ELSE <<>>],
     focus |-> focus, calls |-> 0, last |-> NoCall]

\* rateLimiter.isAllowed(userId, action): synchronous, so one step.  "reference" is
\* the map of a limiter that received the same isAllowed calls and no cleanup();
\* "admitted" keeps the times of the calls that returned true.
LimiterAfter(l, key, now) ==
    LET result == isAllowedResult(l.requests, key, now)
    IN  [l EXCEPT
           !.requests = isAllowedMap(l.requests, key, now),
           !.reference = isAllowedMap(l.reference, key, now),
           !.admitted[key] = IF result THEN Append(@, now) ELSE @,
           !.calls = @ + 1,
           !.last = [op |-> "isAllowed", key |-> key, now |-> now,
                     result |-> result,
                     reference |-> isAllowedResult(l.reference, key, now),
                     before |-> l.requests]]

isAllowed(userId, action) ==
    LET key == <<userId, action>>
    IN  /\ key = limiter.focus
        /\ limiter.calls < Limit(action) + MaxExtraCalls
        /\ limiter' = LimiterAfter(limiter, key, clock)
        /\ UNCHANGED <<envVars, run, compressionChunks, decompressionChunks, codec,
                       cleanup, adapter, handler, telegram, report, gcs>>

\* rateLimiter.cleanup()
rateLimiter_cleanup ==
    /\ limiter.last.op # "cleanup"
    /\ limiter' = [limiter EXCEPT
                      !.requests = cleanupMap(limiter.requests, clock),
                      !.last = [NoCall EXCEPT !.op = "cleanup", !.now = clock,
                                              !.before = limiter.requests]]
    /\ UNCHANGED <<envVars, run, compressionChunks, decompressionChunks, codec,
                   cleanup, adapter, handler, telegram, report, gcs>>

\* clock advances between calls: to the last millisecond of the window that began at
\* the previous advance, then one millisecond further, and so on
LimiterTicks == {IF ticks % 2 = 0 THEN WINDOW - 1 ELSE 1}

InitLimiter ==
    /\ bucket = {} /\ backupTable = {} /\ store = <<>>
    /\ clock = 0 /\ ticks = 0 /\ notifications = [p \in Runs |-> <<>>]
    /\ run = <<>>
    /\ compressionChunks = <<>>
    /\ decompressionChunks = <<>>
    /\ codec = CodecIdle(0)
    /\ cleanup = <<>>
    /\ limiter \in UNION {{LimiterIdle(<<0, action>>, earlier) :
                                earlier \in {{}, {<<1, action>>}}} : action \in LimiterActions}
    /\ adapter = <<>> /\ handler = <<>> /\ telegram = <<>> /\ report = <<>> /\ gcs = GcsConfigured

NextLimiter ==
    \/ \E d \in LimiterTicks : Tick(d)
    \/ \E userId \in LimiterUsers, action \in LimiterActions : isAllowed(userId, action)
    \/ rateLimiter_cleanup

SpecLimiter == InitLimiter /\ [][NextLimiter]_vars

\* --------------------------------------------------------- platform adapters
Platforms == {"discord", "telegram", "whatsapp", "facebook", "instagram"}
MetaPlatforms == {"whatsapp", "facebook", "instagram"}
Activations == {1, 2}
\* message texts: a clean one, one with a word of profanityList, one of repeated characters
Contents == {"hello", "badword1", "aaaaa"}

\* !profanityList.some(word => content.toLowerCase().includes(word))
isProfanityFree(content) == content # "badword1"
\* !spamPatterns.some(pattern => pattern.test(content))
isNotSpam(content) == content # "aaaaa"

\* "at" is the time of the call, "replied" the reply requests sent, "reads" the
\* analytics reads made
AdapterIdle ==
    [pc |-> "idle", platform |-> "none", userId |-> 0, content |-> "none",
     allowed |-> "unchecked", moderated |-> FALSE, wrote |-> FALSE,
     at |-> 0, replied |-> <<>>, reads |-> 0, outcome |-> "pending"]

\* the rate limiter of the process after n admitted calls for the key at time 0
RECURSIVE Times(_, _)
Times(n, t) == IF n = 0 THEN <<>> ELSE <<t>> \o Times(n - 1, t)
LimiterWith(key, n) ==
    [requests |-> IF n = 0 THEN EmptyMap ELSE [k \in {key} |-> Times(n, 0)],
     reference |-> IF n = 0 THEN EmptyMap ELSE [k \in {key} |-> Times(n, 0)],
     admitted |-> [k \in LimiterKeys |-> IF k = key THEN Times(n, 0) ELSE <<>>],
     focus |-> key, calls |-> n, last |-> NoCall]

\* DynamoDBUtils.saveInteraction: PutCommand of a new item
SaveInteraction(table, userId) == PutInteraction(table, Record(Len(table) + 1, userId))

\* a Meta handler that runs the content checks before it asks the rate limiter
adapter_receiveModerateFirst(a, platform, userId, content) ==
    /\ adapter[a].pc = "idle"
    /\ LET clean == isProfanityFree(content) /\ isNotSpam(content)
           after == IF platform \in MetaPlatforms /\ clean
                    THEN LimiterAfter(limiter, <<userId, "message">>, clock)
                    ELSE limiter
           ok == after.last.result
       IN  /\ limiter' = after
           /\ adapter' = [adapter EXCEPT ![a] =
                 [AdapterIdle EXCEPT
                    !.platform = platform, !.userId = userId, !.content = content,
                    !.at = clock,
                    !.allowed = IF platform \notin MetaPlatforms THEN "unchecked"
                                ELSE IF ~clean \/ ok THEN "yes" ELSE "no",
                    !.moderated = platform \in MetaPlatforms /\ clean /\ ok,
                    !.pc = IF platform \notin MetaPlatforms THEN "save"
                           ELSE IF ~isProfanityFree(content) THEN "replyProfane"
                           ELSE IF ~isNotSpam(content) THEN "replySpam"
                           ELSE IF ~ok THEN "replyLimited"
                           ELSE "save"]]
    /\ UNCHANGED <<envVars, run, compressionChunks, decompressionChunks, codec,
                   cleanup, handler, telegram, report, gcs>>

\* the handler of the platform is called with a user message and runs to its first
\* await.  handleWhatsAppMessage / handleFacebookMessage / handleInstagramMessage ask
\* the rate limiter, then the two content checks; the Discord and the Telegram
\* handleMessage go straight to saveInteraction.
adapter_receive(a, platform, userId, content) ==
    /\ adapter[a].pc = "idle"
    /\ IF platform \in MetaPlatforms
       THEN LET after == LimiterAfter(limiter, <<userId, "message">>, clock)
                ok == after.last.result
                clean == isProfanityFree(content) /\ isNotSpam(content)
            IN  /\ limiter' = after
                /\ adapter' = [adapter EXCEPT ![a] =
                      [AdapterIdle EXCEPT
                         !.platform = platform, !.userId = userId, !.content = content,
                         !.at = clock,
                         !.allowed = IF ok THEN "yes" ELSE "no",
                         !.moderated = ok /\ clean,
                         !.pc = IF ~ok THEN "replyLimited"
                                ELSE IF ~isProfanityFree(content) THEN "replyProfane"
                                ELSE IF ~isNotSpam(content) THEN "replySpam"
                                ELSE "save"]]
       ELSE /\ adapter' = [adapter EXCEPT ![a] =
                      [AdapterIdle EXCEPT
                         !.platform = platform, !.userId = userId, !.content = content,
                         !.at = clock, !.pc = "save"]]
            /\ UNCHANGED limiter
    /\ UNCHANGED <<envVars, run, compressionChunks, decompressionChunks, codec,
                   cleanup, handler, telegram, report, gcs>>

\* await DynamoDBUtils.saveInteraction(...): the record is written, or the put throws;
\* the Meta handlers then read the user's engagement
adapter_save(a, ok) ==
    /\ adapter[a].pc = "save"
    /\ IF ok
       THEN /\ store' = SaveInteraction(store, adapter[a].userId)
            /\ adapter' = [adapter EXCEPT
                             ![a].pc = IF adapter[a].platform \in MetaPlatforms
                                       THEN "stats" ELSE "reply",
                             ![a].wrote = TRUE]
       ELSE /\ adapter' = [adapter EXCEPT ![a].pc = "done", ![a].outcome = "thrown"]
            /\ UNCHANGED store
    /\ UNCHANGED <<bucket, backupTable, clock, ticks, notifications, run,
                   compressionChunks, decompressionChunks, codec, cleanup,
                   limiter, handler, telegram, report, gcs>>

\* await Analytics.getUserEngagement(senderId)
adapter_stats(a, ok) ==
    /\ adapter[a].pc = "stats"
    /\ adapter' = IF ok
                  THEN [adapter EXCEPT ![a].pc = "reply", ![a].reads = @ + 1]
                  ELSE [adapter EXCEPT ![a].pc = "done", ![a].reads = @ + 1,
                                       ![a].outcome = "thrown"]
    /\ UNCHANGED <<envVars, run, compressionChunks, decompressionChunks, codec,
                   cleanup, limiter, handler, telegram, report, gcs>>

\* await fetch(...): the reply (or refusal notice) is posted and the handler returns,
\* or fetch throws
adapter_reply(a, ok) ==
    /\ adapter[a].pc \in {"reply", "replyLimited", "replyProfane", "replySpam"}
    /\ adapter' = [adapter EXCEPT ![a].pc = "done",
                                  ![a].replied = Append(@, adapter[a].pc),
                                  ![a].outcome = IF ok THEN "returned" ELSE "thrown"]
    /\ UNCHANGED <<envVars, run, compressionChunks, decompressionChunks, codec,
                   cleanup, limiter, handler, telegram, report, gcs>>

InitAdapter ==
    /\ bucket = {} /\ backupTable = {} /\ store = <<>>
    /\ clock = 0 /\ ticks = 0 /\ notifications = [p \in Runs |-> <<>>]
    /\ run = <<>>
    /\ compressionChunks = <<>>
    /\ decompressionChunks = <<>>
    /\ codec = CodecIdle(0)
    /\ cleanup = <<>>
    /\ limiter \in {LimiterWith(<<0, "message">>, n) : n \in {0, LIMIT_MESSAGE - 1}}
    /\ adapter = [a \in Activations |-> AdapterIdle]
    /\ handler = <<>> /\ telegram = <<>> /\ report = <<>> /\ gcs = GcsConfigured

NextAdapter ==
    \/ \E d \in LimiterTicks : Tick(d)
    \/ \E a \in Activations, platform \in Platforms, userId \in LimiterUsers,
          content \in Contents : adapter_receive(a, platform, userId, content)
    \/ \E a \in Activations, ok \in BOOLEAN : adapter_save(a, ok)
    \/ \E a \in Activations, ok \in BOOLEAN : adapter_stats(a, ok)
    \/ \E a \in Activations, ok \in BOOLEAN : adapter_reply(a, ok)

SpecAdapter == InitAdapter /\ [][NextAdapter]_vars

\* ---------------------------------------------------- scheduled-task handler
\* event.taskType that runs the backup: 'backup', 'all', or absent (which is 'all')
TaskTypes == {"backup", "all", "absent"}
\* the activation of performBackup the handler awaits
HandlerRun == 1
\* "runLog" keeps the steps the performBackup() of the invocation had taken when the
\* handler settled
NoResponse == [statusCode |-> 0, error |-> "none", settled |-> "pending", runLog |-> <<>>]

HandlerIdle ==
    [pc |-> "idle", taskType |-> "none", notifyOnCompletion |-> FALSE,
     others |-> "none", error |-> "none", alerts |-> <<>>, response |-> NoResponse]

\* handler(event): event?.taskType || 'all'; 'backup' awaits performBackup(), 'all'
\* awaits Promise.all of performBackup() and the report and monitoring tasks
handler_call(taskType, notifyOnCompletion) ==
    /\ handler.pc = "idle"
    /\ run[HandlerRun].pc = "idle"
    /\ handler' = [handler EXCEPT !.pc = "await", !.taskType = taskType,
                      !.notifyOnCompletion = notifyOnCompletion,
                      !.others = IF taskType = "backup" THEN "none" ELSE "pending"]
    /\ run' = [run EXCEPT ![HandlerRun].pc = "scan"]
    /\ UNCHANGED <<envVars, compressionChunks, decompressionChunks, codec, cleanup,
                   limiter, adapter, telegram, report, gcs>>

\* the report and monitoring promises of Promise.all settle: all fulfilled, or one
\* rejects and Promise.all rejects with its error
handler_others(ok) ==
    /\ handler.pc = "await"
    /\ handler.others = "pending"
    /\ handler' = IF ok THEN [handler EXCEPT !.others = "ok"]
                  ELSE [handler EXCEPT !.others = "failed", !.pc = "catch",
                                       !.error = "report failed"]
    /\ UNCHANGED <<envVars, run, compressionChunks, decompressionChunks, codec, cleanup,
                   limiter, adapter, telegram, report, gcs>>

\* a handler that goes on as soon as performBackup() fulfilled
handler_backupSettledAlone ==
    /\ handler.pc = "await"
    /\ run[HandlerRun].pc = "done"
    /\ handler' = IF run[HandlerRun].outcome = "rejected"
                  THEN [handler EXCEPT !.pc = "catch", !.error = run[HandlerRun].thrown]
                  ELSE [handler EXCEPT !.pc = "complete"]
    /\ UNCHANGED <<envVars, run, compressionChunks, decompressionChunks, codec, cleanup,
                   limiter, adapter, telegram, report, gcs>>

\* performBackup() settled: its rejection is thrown into the catch block; its
\* fulfilment (with the other tasks fulfilled) leads to the completion notice
handler_backupSettled ==
    /\ handler.pc = "await"
    /\ run[HandlerRun].pc = "done"
    /\ handler.others # "pending" \/ run[HandlerRun].outcome = "rejected"
    /\ handler' = IF run[HandlerRun].outcome = "rejected"
                  THEN [handler EXCEPT !.pc = "catch", !.error = run[HandlerRun].thrown]
                  ELSE [handler EXCEPT !.pc = "complete"]
    /\ UNCHANGED <<envVars, run, compressionChunks, decompressionChunks, codec, cleanup,
                   limiter, adapter, telegram, report, gcs>>

\* if (event.notifyOnCompletion) await sendSystemAlert(...'info'); return 200.  The
\* send may throw into the catch block.
handler_complete(ok) ==
    /\ handler.pc = "complete"
    /\ handler' =
          IF ~handler.notifyOnCompletion
          THEN [handler EXCEPT !.pc = "done",
                  !.response = [statusCode |-> 200, error |-> "none", settled |-> "returned",
                                runLog |-> run[HandlerRun].log]]
          ELSE IF ok
          THEN [handler EXCEPT !.pc = "done",
                  !.alerts = Append(@, [severity |-> "info", error |-> "none"]),
                  !.response = [statusCode |-> 200, error |-> "none", settled |-> "returned",
                                runLog |-> run[HandlerRun].log]]
          ELSE [handler EXCEPT !.pc = "catch", !.error = "webhook failed"]
    /\ UNCHANGED <<envVars, run, compressionChunks, decompressionChunks, codec, cleanup,
                   limiter, adapter, telegram, report, gcs>>

\* catch: await sendSystemAlert('Scheduled Tasks Failed', ..., 'error'), then return
\* the 500 response; when the send throws, the handler rejects
handler_catch(ok) ==
    /\ handler.pc = "catch"
    /\ handler' =
          IF ok
          THEN [handler EXCEPT !.pc = "done",
                  !.alerts = Append(@, [severity |-> "error", error |-> handler.error]),
                  !.response = [statusCode |-> 500, error |-> handler.error,
                                settled |-> "returned", runLog |-> run[HandlerRun].log]]
          ELSE [handler EXCEPT !.pc = "done",
                  !.response = [statusCode |-> 0, error |-> "webhook failed",
                                settled |-> "rejected", runLog |-> run[HandlerRun].log]]
    /\ UNCHANGED <<envVars, run, compressionChunks, decompressionChunks, codec, cleanup,
                   limiter, adapter, telegram, report, gcs>>

InitHandler ==
    /\ bucket = {} /\ backupTable = {}
    /\ store \in Stores
    /\ clock = 0 /\ ticks = 0 /\ notifications = [p \in Runs |-> <<>>]
    /\ run = [p \in Runs |-> RunIdle]
    /\ compressionChunks = <<>>
    /\ decompressionChunks = <<>>
    /\ codec = CodecIdle(0)
    /\ cleanup = <<>>
    /\ limiter = <<>> /\ adapter = <<>>
    /\ handler = HandlerIdle
    /\ telegram = <<>> /\ report = <<>> /\ gcs = GcsConfigured

NextHandler ==
    \/ \E taskType \in TaskTypes, notifyOnCompletion \in BOOLEAN :
          handler_call(taskType, notifyOnCompletion)
    \/ \E ok \in BOOLEAN : handler_others(ok)
    \/ handler_backupSettled
    \/ \E ok \in BOOLEAN : handler_complete(ok)
    \/ \E ok \in BOOLEAN : handler_catch(ok)
    \/ \E d \in {SIGNED_URL_DELAY} : Tick(d)
    \/ \E ok \in BOOLEAN : scan_page(HandlerRun, ok)
    \/ backup_compress_begin(HandlerRun)
    \/ \E ok \in BOOLEAN : backup_compress_data(HandlerRun, ok)
    \/ backup_compress_end(HandlerRun)
    \/ \E iv \in IVs : backup_encrypt(HandlerRun, iv)
    \/ \E ok \in BOOLEAN : backup_save(HandlerRun, ok)
    \/ \E ok \in BOOLEAN : backup_url(HandlerRun, ok)
    \/ backup_timer(HandlerRun)
    \/ \E ok \in BOOLEAN : backup_putMeta(HandlerRun, ok)
    \/ \E ok \in BOOLEAN : backup_notifySuccess(HandlerRun, ok)
    \/ \E ok \in BOOLEAN : backup_catch(HandlerRun, ok)

SpecHandler == InitHandler /\ [][NextHandler]_vars

\* ------------------------------------------------ backup under concurrent writes
\* a store whose keys leave room before, between and after its records
SparseStoreOf(n) == [i \in 1 .. n |-> Record(2 * i, i % 2)]
FreeIds == {2 * i - 1 : i \in 1 .. (MaxRecords + 1)}
\* the activation of performBackup that scans while the adapters write
SnapshotRun == 1

\* an adapter's saveInteraction lands: the item id (platform, time, random suffix)
\* decides its place in the key order.  "instants" collects the contents the store had
\* from the first to the last page of the scan of SnapshotRun.
saveInteraction(id, userId) ==
    /\ adapter.writes < MaxWrites
    /\ \A i \in DOMAIN store : store[i].id # id
    /\ store' = PutInteraction(store, Record(id, userId))
    /\ adapter' =
          [adapter EXCEPT
             !.writes = @ + 1,
             !.order = Append(@, id),
             !.instants = IF run[SnapshotRun].pc = "idle" THEN {store'}
                          ELSE IF run[SnapshotRun].pc = "scan" THEN @ \cup {store'}
                          ELSE @]
    /\ UNCHANGED <<bucket, backupTable, clock, ticks, notifications, run,
                   compressionChunks, decompressionChunks, codec, cleanup,
                   limiter, handler, telegram, report, gcs>>

InitSnapshot ==
    /\ bucket = {} /\ backupTable = {}
    /\ store \in {SparseStoreOf(n) : n \in 0 .. MaxRecords}
    /\ clock = 0 /\ ticks = 0 /\ notifications = [p \in Runs |-> <<>>]
    /\ run = [p \in Runs |-> RunIdle]
    /\ compressionChunks = <<>>
    /\ decompressionChunks = <<>>
    /\ codec = CodecIdle(0)
    /\ cleanup = <<>>
    /\ limiter = <<>>
    /\ adapter = [writes |-> 0, order |-> <<>>, instants |-> {store}]
    /\ handler = <<>> /\ telegram = <<>> /\ report = <<>> /\ gcs = GcsConfigured

NextSnapshot ==
    \/ \E id \in FreeIds, userId \in Users : saveInteraction(id, userId)
    \/ performBackup_call(SnapshotRun)
    \/ \E ok \in BOOLEAN : scan_page(SnapshotRun, ok)
    \/ \E d \in {SIGNED_URL_DELAY} : Tick(d)
    \/ backup_compress_begin(SnapshotRun)
    \/ \E ok \in BOOLEAN : backup_compress_data(SnapshotRun, ok)
    \/ backup_compress_end(SnapshotRun)
    \/ \E iv \in IVs : backup_encrypt(SnapshotRun, iv)
    \/ \E ok \in BOOLEAN : backup_save(SnapshotRun, ok)
    \/ \E ok \in BOOLEAN : backup_url(SnapshotRun, ok)
    \/ backup_timer(SnapshotRun)
    \/ \E ok \in BOOLEAN : backup_putMeta(SnapshotRun, ok)
    \/ \E ok \in BOOLEAN : backup_notifySuccess(SnapshotRun, ok)
    \/ \E ok \in BOOLEAN : backup_catch(SnapshotRun, ok)

SpecSnapshot == InitSnapshot /\ [][NextSnapshot]_vars

\* ------------------------------------------------ scan of a quiescent store
\* the activation of performBackup whose getAllData() scans a store nobody writes
ScanRun == 1

NextScan ==
    \/ performBackup_call(ScanRun)
    \/ \E ok \in BOOLEAN : scan_page(ScanRun, ok)
    \/ \E d \in {SIGNED_URL_DELAY} : Tick(d)
    \/ backup_compress_begin(ScanRun)
    \/ \E ok \in BOOLEAN : backup_compress_data(ScanRun, ok)
    \/ backup_compress_end(ScanRun)
    \/ \E iv \in IVs : backup_encrypt(ScanRun, iv)
    \/ \E ok \in BOOLEAN : backup_save(ScanRun, ok)
    \/ \E ok \in BOOLEAN : backup_url(ScanRun, ok)
    \/ backup_timer(ScanRun)
    \/ \E ok \in BOOLEAN : backup_putMeta(ScanRun, ok)
    \/ \E ok \in BOOLEAN : backup_notifySuccess(ScanRun, ok)
    \/ \E ok \in BOOLEAN : backup_catch(ScanRun, ok)

\* every awaited ScanCommand settles: it fulfils with a page or it rejects
SpecScan ==
    Init /\ [][NextScan]_vars /\ WF_vars(\E ok \in BOOLEAN : scan_page(ScanRun, ok))

\* ------------------------------------------------------------- Telegram bot
\* callback_query.data: 'ticket:category:<c>', 'ticket:respond:<id>', 'ticket:view:<id>'
CallbackData ==
    {[kind |-> "category", arg |-> "tech"], [kind |-> "category", arg |-> ""],
     [kind |-> "respond", arg |-> "T1"], [kind |-> "view", arg |-> "T1"]}
NoData == [kind |-> "none", arg |-> ""]
MessageTexts == {"hello", "/stats", "/ticket new", "/foo"}

\* JSON.parse(event.body).  A Telegram Update carries the sender inside message.from or
\* callback_query.from and the data inside callback_query.data (topLevel FALSE); a body
\* may also carry from, chat and callbackQuery at its top level (topLevel TRUE), the
\* fields the handlers read from ctx = {...update, reply}.
TelegramUpdates ==
    [type : {"callback_query"}, topLevel : BOOLEAN, userId : Users, data : CallbackData,
     isReply : {FALSE}, text : {"none"}]
    \cup
    [type : {"message"}, topLevel : BOOLEAN, userId : Users, data : {NoData},
     isReply : BOOLEAN, text : MessageTexts]
NoUpdate == [type |-> "none", topLevel |-> FALSE, userId |-> 0, data |-> NoData,
             isReply |-> FALSE, text |-> "none"]

\* JavaScript truthiness of an optional string field
Truthy(x) == x \notin {"undefined", ""}

\* handleMessage up to its first await
HandleMessageRoute(temp, u) ==
    IF ~u.topLevel THEN "ignored"
    ELSE IF u.isReply /\ u.userId \in DOMAIN temp
    THEN IF Truthy(temp[u.userId].category) THEN "create"
         ELSE IF Truthy(temp[u.userId].respondingTo) THEN "respond"
         ELSE "save"
    ELSE "save"

\* handler: the branch taken for an update with the pending intents temp
Route(temp, u) ==
    IF u.type = "callback_query"
    THEN IF ~u.topLevel THEN "TypeError"
         ELSE IF u.data.kind = "category" THEN "setCategory"
         ELSE IF u.data.kind = "view" THEN "view"
         ELSE "setRespond"
    ELSE IF u.text = "/ticket new"
         THEN (IF u.topLevel THEN "ticketCommand" ELSE "ignored")
    ELSE IF u.text = "/foo" THEN "unknownCommand"
    ELSE HandleMessageRoute(temp, u)

\* tempTicketData[userId] = { category } / { respondingTo: ticketId }
SetIntent(temp, u) ==
    MapSet(temp, u.userId,
           IF u.data.kind = "category"
           THEN [category |-> u.data.arg, respondingTo |-> "undefined"]
           ELSE [category |-> "undefined", respondingTo |-> u.data.arg])

\* the bot process after module load; "before" and "freshRoute" keep, for the update
\* being handled, the intents at its arrival and the branch a process without pending
\* intents takes for it; "created", "responded", "stored" count what this activation wrote
TelegramIdle ==
    [tempTicketData |-> EmptyMap, pc |-> "idle", update |-> NoUpdate, route |-> "none",
     freshRoute |-> "none", before |-> EmptyMap, tickets |-> <<>>, responses |-> <<>>,
     replies |-> <<>>, created |-> 0, responded |-> 0, stored |-> 0, failed |-> "none",
     statusCode |-> 0, handled |-> 0]

\* handler(event): parse, build ctx, run the handler function up to its first await
telegram_receive(u) ==
    /\ telegram.pc = "idle"
    /\ telegram.handled < MaxUpdates
    /\ LET route == Route(telegram.tempTicketData, u)
       IN  telegram' =
             [telegram EXCEPT
                !.update = u, !.route = route,
                !.freshRoute = Route(EmptyMap, u),
                !.before = telegram.tempTicketData,
                !.created = 0, !.responded = 0, !.stored = 0, !.failed = "none",
                !.tempTicketData = IF route \in {"setCategory", "setRespond"}
                                   THEN SetIntent(@, u) ELSE @,
                !.statusCode = IF route = "TypeError" THEN 500
                               ELSE IF route = "ignored" THEN 200 ELSE 0,
                !.pc = CASE route \in {"TypeError", "ignored"} -> "done"
                         [] route = "view" -> "getTicket"
                         [] route = "create" -> "create"
                         [] route = "respond" -> "addResponse"
                         [] route = "save" -> "save"
                         [] OTHER -> "reply"]
    /\ UNCHANGED <<envVars, run, compressionChunks, decompressionChunks, codec, cleanup,
                   limiter, adapter, handler, report, gcs>>

\* await TicketManager.getTicket(ticketId)
telegram_getTicket(outcome) ==
    /\ telegram.pc = "getTicket"
    /\ telegram' = IF outcome = "throws"
                   THEN [telegram EXCEPT !.pc = "done", !.statusCode = 500,
                                         !.failed = "getTicket"]
                   ELSE [telegram EXCEPT !.pc = "reply"]
    /\ UNCHANGED <<envVars, run, compressionChunks, decompressionChunks, codec, cleanup,
                   limiter, adapter, handler, report, gcs>>

\* await createNewTicket(...); delete tempTicketData[userId]
telegram_createTicket(ok) ==
    /\ telegram.pc = "create"
    /\ LET u == telegram.update
       IN  telegram' =
             IF ok
             THEN [telegram EXCEPT
                     !.tickets = Append(@, [userId |-> u.userId,
                                            category |-> telegram.tempTicketData[u.userId].category]),
                     !.created = @ + 1,
                     !.tempTicketData = MapDelete(@, u.userId),
                     !.pc = "reply"]
             ELSE [telegram EXCEPT !.pc = "done", !.statusCode = 500, !.failed = "create"]
    /\ UNCHANGED <<envVars, run, compressionChunks, decompressionChunks, codec, cleanup,
                   limiter, adapter, handler, report, gcs>>

\* await handleTicketResponse(...); delete tempTicketData[userId]
telegram_addResponse(ok) ==
    /\ telegram.pc = "addResponse"
    /\ LET u == telegram.update
       IN  telegram' =
             IF ok
             THEN [telegram EXCEPT
                     !.responses = Append(@, [userId |-> u.userId,
                                              ticketId |-> telegram.tempTicketData[u.userId].respondingTo]),
                     !.responded = @ + 1,
                     !.tempTicketData = MapDelete(@, u.userId),
                     !.pc = "reply"]
             ELSE [telegram EXCEPT !.pc = "done", !.statusCode = 500,
                                   !.failed = "addResponse"]
    /\ UNCHANGED <<envVars, run, compressionChunks, decompressionChunks, codec, cleanup,
                   limiter, adapter, handler, report, gcs>>

\* await DynamoDBUtils.saveInteraction(userId, 'telegram', ...); '/stats' then replies
telegram_save(ok) ==
    /\ telegram.pc = "save"
    /\ IF ok
       THEN /\ store' = SaveInteraction(store, telegram.update.userId)
            /\ telegram' = IF telegram.update.text = "/stats"
                           THEN [telegram EXCEPT !.stored = @ + 1, !.pc = "reply"]
                           ELSE [telegram EXCEPT !.stored = @ + 1, !.pc = "done",
                                                 !.statusCode = 200]
       ELSE /\ telegram' = [telegram EXCEPT !.pc = "done", !.statusCode = 500,
                                            !.failed = "save"]
            /\ UNCHANGED store
    /\ UNCHANGED <<bucket, backupTable, clock, ticks, notifications, run,
                   compressionChunks, decompressionChunks, codec, cleanup,
                   limiter, adapter, handler, report, gcs>>

\* await ctx.reply(...): bot.api.sendMessage
telegram_reply(ok) ==
    /\ telegram.pc = "reply"
    /\ telegram' =
          IF ok
          THEN [telegram EXCEPT
                  !.replies = Append(@, [userId |-> telegram.update.userId,
                                         about |-> telegram.route]),
                  !.pc = "done", !.statusCode = 200]
          ELSE [telegram EXCEPT !.pc = "done", !.statusCode = 500, !.failed = "reply"]
    /\ UNCHANGED <<envVars, run, compressionChunks, decompressionChunks, codec, cleanup,
                   limiter, adapter, handler, report, gcs>>

\* the handler returned its response; the process waits for the next update
telegram_return ==
    /\ telegram.pc = "done"
    /\ telegram' = [telegram EXCEPT !.pc = "idle", !.handled = @ + 1]
    /\ UNCHANGED <<envVars, run, compressionChunks, decompressionChunks, codec, cleanup,
                   limiter, adapter, handler, report, gcs>>

InitTelegram ==
    /\ bucket = {} /\ backupTable = {} /\ store = <<>>
    /\ clock = 0 /\ ticks = 0 /\ notifications = [p \in Runs |-> <<>>]
    /\ run = <<>>
    /\ compressionChunks = <<>>
    /\ decompressionChunks = <<>>
    /\ codec = CodecIdle(0)
    /\ cleanup = <<>>
    /\ limiter = <<>> /\ adapter = <<>> /\ handler = <<>>
    /\ telegram = TelegramIdle /\ report = <<>> /\ gcs = GcsConfigured

NextTelegram ==
    \/ \E u \in TelegramUpdates : telegram_receive(u)
    \/ \E outcome \in {"found", "missing", "throws"} : telegram_getTicket(outcome)
    \/ \E ok \in BOOLEAN : telegram_createTicket(ok)
    \/ \E ok \in BOOLEAN : telegram_addResponse(ok)
    \/ \E ok \in BOOLEAN : telegram_save(ok)
    \/ \E ok \in BOOLEAN : telegram_reply(ok)
    \/ telegram_return

SpecTelegram == InitTelegram /\ [][NextTelegram]_vars

\* ------------------------------------------------- BackupSystem.generateReport
\* DynamoDBUtils.putItem on the record table: one item per primary key (id, timestamp)
ItemPut(items, item) ==
    {i \in items : ~(i.id = item.id /\ i.timestamp = item.timestamp)} \cup {item}

\* "items" are the items the runs put into the record table, "before" the items at the
\* call of the current run
ReportIdle ==
    [pc |-> "idle", stats |-> <<>>, items |-> {}, before |-> {}, outcome |-> "none",
     error |-> "none", runs |-> 0]

\* generateReport() is called: calculateStats() sends its five queryData requests
generateReport_call ==
    /\ report.pc = "idle"
    /\ report.runs < MaxReports
    /\ report' = [report EXCEPT !.pc = "query", !.before = report.items,
                                !.stats = <<>>, !.outcome = "pending", !.error = "none"]
    /\ UNCHANGED <<envVars, run, compressionChunks, decompressionChunks, codec, cleanup,
                   limiter, adapter, handler, telegram, gcs>>

\* calculateStats: await Promise.all(queryData...) and the report object, or a
\* rejected query
calculateStats_query(ok) ==
    /\ report.pc = "query"
    /\ report' = IF ok
                 THEN [report EXCEPT !.pc = "putWeekly",
                                     !.stats = [timestamp |-> toISOString(clock),
                                                period |-> "weekly",
                                                totalInteractions |-> Len(store)]]
                 ELSE [report EXCEPT !.pc = "settled", !.outcome = "rejected",
                                     !.error = "stats failed"]
    /\ UNCHANGED <<envVars, run, compressionChunks, decompressionChunks, codec, cleanup,
                   limiter, adapter, handler, telegram, gcs>>

\* calculateStats: await putItem({ type: 'weekly_report', ...report }); the item has no
\* id, so the table accepts or rejects it by its key schema
calculateStats_put(ok) ==
    /\ report.pc = "putWeekly"
    /\ report' = IF ok
                 THEN [report EXCEPT
                         !.pc = "save",
                         !.items = ItemPut(@, [type |-> "weekly_report", id |-> <<"undefined">>,
                                               timestamp |-> report.stats.timestamp,
                                               totalInteractions |-> report.stats.totalInteractions])]
                 ELSE [report EXCEPT !.pc = "settled", !.outcome = "rejected",
                                     !.error = "stats failed"]
    /\ UNCHANGED <<envVars, run, compressionChunks, decompressionChunks, codec, cleanup,
                   limiter, adapter, handler, telegram, gcs>>

\* saveReport(stats): putItem({ type: 'report', id: `report_${now}`, ...report });
\* generateReport returns stats, or rethrows
generateReport_save(ok) ==
    /\ report.pc = "save"
    /\ report' = IF ok
                 THEN [report EXCEPT
                         !.pc = "settled", !.outcome = "returned",
                         !.items = ItemPut(@, [type |-> "report",
                                               id |-> <<"report_", toISOString(clock)>>,
                                               timestamp |-> report.stats.timestamp,
                                               totalInteractions |-> report.stats.totalInteractions])]
                 ELSE [report EXCEPT !.pc = "settled", !.outcome = "rejected",
                                     !.error = "save failed"]
    /\ UNCHANGED <<envVars, run, compressionChunks, decompressionChunks, codec, cleanup,
                   limiter, adapter, handler, telegram, gcs>>

\* the caller has the result; the next run can start
generateReport_settled ==
    /\ report.pc = "settled"
    /\ report' = [report EXCEPT !.pc = "idle", !.runs = @ + 1]
    /\ UNCHANGED <<envVars, run, compressionChunks, decompressionChunks, codec, cleanup,
                   limiter, adapter, handler, telegram, gcs>>

InitReport ==
    /\ bucket = {} /\ backupTable = {}
    /\ store \in Stores
    /\ clock = 0 /\ ticks = 0 /\ notifications = [p \in Runs |-> <<>>]
    /\ run = <<>>
    /\ compressionChunks = <<>>
    /\ decompressionChunks = <<>>
    /\ codec = CodecIdle(0)
    /\ cleanup = <<>>
    /\ limiter = <<>> /\ adapter = <<>> /\ handler = <<>>
    /\ telegram = <<>> /\ report = ReportIdle /\ gcs = GcsConfigured

NextReport ==
    \/ \E d \in {1} : Tick(d)
    \/ generateReport_call
    \/ \E ok \in BOOLEAN : calculateStats_query(ok)
    \/ \E ok \in BOOLEAN : calculateStats_put(ok)
    \/ \E ok \in BOOLEAN : generateReport_save(ok)
    \/ generateReport_settled

SpecReport == InitReport /\ [][NextReport]_vars

\* ------------------------------------------------------------ process start
\* import of gcsUtils.js: the singleton is constructed from the environment
gcsUtils_load(env) ==
    /\ gcs.status = "unloaded"
    /\ gcs' = GcsConstruct(env)
    /\ UNCHANGED <<envVars, run, compressionChunks, decompressionChunks, codec, cleanup,
                   limiter, adapter, handler, telegram, report>>

\* performBackup() can be called once the modules are loaded
startup_performBackup(p) ==
    /\ gcs.status = "constructed"
    /\ performBackup_call(p)

InitStartup ==
    /\ bucket = {} /\ backupTable = {}
    /\ store \in Stores
    /\ clock = 0 /\ ticks = 0 /\ notifications = [p \in Runs |-> <<>>]
    /\ run = [p \in Runs |-> RunIdle]
    /\ compressionChunks = <<>>
    /\ decompressionChunks = <<>>
    /\ codec = CodecIdle(0)
    /\ cleanup = <<>>
    /\ limiter = <<>> /\ adapter = <<>> /\ handler = <<>>
    /\ telegram = <<>> /\ report = <<>>
    /\ gcs = GcsUnloaded

NextStartup ==
    \/ \E env \in KeyEnvs : gcsUtils_load(env)
    \/ startup_performBackup(ScanRun)
    \/ \E ok \in BOOLEAN : scan_page(ScanRun, ok)
    \/ \E d \in {SIGNED_URL_DELAY} : Tick(d)
    \/ backup_compress_begin(ScanRun)
    \/ \E ok \in BOOLEAN : backup_compress_data(ScanRun, ok)
    \/ backup_compress_end(ScanRun)
    \/ \E iv \in IVs : backup_encrypt(ScanRun, iv)
    \/ \E ok \in BOOLEAN : backup_save(ScanRun, ok)
    \/ \E ok \in BOOLEAN : backup_url(ScanRun, ok)
    \/ backup_timer(ScanRun)
    \/ \E ok \in BOOLEAN : backup_putMeta(ScanRun, ok)
    \/ \E ok \in BOOLEAN : backup_notifySuccess(ScanRun, ok)
    \/ \E ok \in BOOLEAN : backup_catch(ScanRun, ok)

SpecStartup == InitStartup /\ [][NextStartup]_vars

\* ------------------------------------------------------------------ codec claims
\* C7: the codec is a round trip: decryptAndDecompress(compressAndEncrypt(b)) under
\* the same key returns b, and decompressData(compressData(b)) returns b, for every
\* buffer b including the empty one.
C7_RoundTrip ==
    /\ (codec.pc = "decoded" /\ ~codec.tampered /\ codec.decKey = ConfiguredKey)
          => (codec.result.ok /\ codec.result.out = codec.input.bytes)
    /\ (codec.pc = "decompressed" /\ codec.input.type = "buffer")
          => (codec.result.ok /\ codec.result.out = codec.input.bytes)
C7_Witness ==
    /\ codec.pc = "decompressed" /\ codec.input = JsBuffer(<<>>)
    /\ codec.calls = MaxCalls /\ codec.result.out = <<>>

\* C8: an artifact that differs from a produced one in its IV, ciphertext or tag, or
\* that is read under another key, makes decryptAndDecompress fail with a crypto error,
\* return no plaintext, and never reach the decompression step.
C8_TamperRejected ==
    (codec.pc = "decoded" /\ (codec.tampered \/ codec.decKey # ConfiguredKey))
       => /\ ~codec.result.ok
          /\ codec.result.out = <<>>
          /\ codec.result.err = "CryptoError"
          /\ ~codec.result.decompressed
C8_Witness ==
    /\ codec.pc = "decoded" /\ codec.tampered /\ codec.input.bytes # <<>>
    /\ codec.result.err = "CryptoError"

\* C9: non-buffer input to the encode path is rejected, not coerced: compressData and
\* uploadFile called with a value that is not a Buffer fail with an error, and that
\* call writes no artifact to the object store.
C9_NonBufferRejected ==
    (codec.pc # "idle" /\ codec.input.type # "buffer")
       => (codec.pc = "rejected" /\ ~codec.saved)
\* C10: a cleanup that returned has deleted exactly the rows of the backup table whose
\* timestamp is strictly older than now minus the retention, has left every other row in
\* place, and reports as deletedCount the number of rows removed from the table.
C10_DeletesExactlyExpired ==
    (cleanup.pc = "done" /\ cleanup.outcome = "returned") =>
        LET expired == {r \in cleanup.before :
                          IsoLess(r.timestamp,
                                  CutoffDate(toISOString(clock), parseInt(cleanup.env).n))}
        IN  /\ backupTable = cleanup.before \ expired
            /\ cleanup.deletedCount = Cardinality(cleanup.before \ backupTable)

\* C11: once the retention cleanup has completed (the metadata cleanup and the artifact
\* cleanup both returned), no backup whose metadata row was deleted still has its
\* artifact at the row's path in the object store.
C11_ArtifactsReclaimed ==
    (/\ cleanup.pc = "done" /\ cleanup.outcome = "returned"
     /\ cleanup.gcs.pc = "done" /\ cleanup.gcs.outcome = "returned")
        => \A r \in cleanup.before \ backupTable : ObjectsAt(r.path) = {}

\* ------------------------------------------------------- rate limiter properties
\* the times of the calls for the key of the last call that were admitted before it
AdmittedBefore ==
    LET adm == limiter.admitted[limiter.last.key]
    IN  IF limiter.last.result THEN SubSeq(adm, 1, Len(adm) - 1) ELSE adm
\* how many of the given times lie less than 60,000 ms before now
CountWithin(times, now) == Cardinality({i \in DOMAIN times : now - times[i] < WINDOW})
LimitTable(action) ==
    CASE action = "message" -> 30 [] action = "command" -> 10
      [] action = "export" -> 2 [] OTHER -> 10

\* C12: with the limits message 30, command 10, export 2 and 10 otherwise: a call made
\* when limit(action) calls for its key were admitted within the last 60,000 ms returns
\* false, and a call made when every admitted call for its key lies 60,000 ms or more
\* back returns true.
C12_LimitThenRecover ==
    limiter.last.op = "isAllowed" =>
        LET n == CountWithin(AdmittedBefore, limiter.last.now)
        IN  /\ n >= LimitTable(limiter.last.key[2]) => ~limiter.last.result
            /\ n = 0 => limiter.last.result
C12_Witness ==
    /\ limiter.last.op = "isAllowed" /\ limiter.last.key[2] = "message"
    /\ limiter.last.result
    /\ limiter.calls = LIMIT_MESSAGE + 2
    /\ Len(limiter.admitted[limiter.last.key]) = LIMIT_MESSAGE + 1

\* C13: the list stored for a key never holds more than limit(action) timestamps, and
\* a call made when fewer than limit(action) admitted calls for its key lie within the
\* last 60,000 ms returns true.
C13_BoundedWindow ==
    /\ \A key \in DOMAIN limiter.requests :
          Len(limiter.requests[key]) <= LimitTable(key[2])
    /\ limiter.last.op = "isAllowed" =>
          (CountWithin(AdmittedBefore, limiter.last.now) < LimitTable(limiter.last.key[2])
              => limiter.last.result)
C13_Witness ==
    /\ limiter.last.op = "isAllowed" /\ limiter.last.key[2] = "message"
    /\ limiter.last.result
    /\ Len(limiter.requests[limiter.last.key]) = LIMIT_MESSAGE
    /\ limiter.calls = LIMIT_MESSAGE

\* C14: a call that returned false left the map as it was; a call that returned true
\* added its own time, once, at the end of the list of its key and touched no other key.
C14_RejectedRecordsNothing ==
    limiter.last.op = "isAllowed" =>
        LET key == limiter.last.key
            before == limiter.last.before
            kept == MapGet(before, key)
            new == MapGet(limiter.requests, key)
        IN  IF ~limiter.last.result THEN limiter.requests = before
            ELSE /\ DOMAIN limiter.requests = DOMAIN before \cup {key}
                 /\ \A k \in DOMAIN before \ {key} : limiter.requests[k] = before[k]
                 /\ new[Len(new)] = limiter.last.now
                 /\ Len(new) = CountWithin(kept, limiter.last.now) + 1
                 /\ \A i \in 1..(Len(new) - 1) : new[i] # limiter.last.now
                                                    \/ \E j \in DOMAIN kept : kept[j] = new[i]
C14_Witness ==
    /\ limiter.last.op = "isAllowed" /\ ~limiter.last.result
    /\ <<1, limiter.last.key[2]>> \in DOMAIN limiter.requests
    /\ limiter.requests = limiter.last.before

C16_CleanupInvisible ==
    /\ limiter.last.op = "cleanup" =>
          LET before == limiter.last.before
              live == {k \in DOMAIN before : CountWithin(before[k], limiter.last.now) > 0}
          IN  /\ DOMAIN limiter.requests = live
              /\ \A k \in live :
                    /\ limiter.requests[k] # <<>>
                    /\ Len(limiter.requests[k]) = CountWithin(before[k], limiter.last.now)
                    /\ \A i \in DOMAIN limiter.requests[k] :
                          limiter.last.now - limiter.requests[k][i] < WINDOW
    /\ limiter.last.op = "isAllowed" => limiter.last.result = limiter.last.reference
C16_Witness ==
    /\ limiter.last.op = "isAllowed" /\ ~limiter.last.result
    /\ DOMAIN limiter.requests # DOMAIN limiter.reference
    /\ limiter.last.before # limiter.reference

\* C17: under any interleaving of the webhook activations of one process, every admitted
\* call that lies less than 60,000 ms back still has its timestamp in the stored list of
\* its key, and no more than limit(action) calls for a key are admitted within 60,000 ms.
C17_NoLostUpdate ==
    \A key \in LimiterKeys :
        /\ Recent(limiter.admitted[key], clock) = Recent(MapGet(limiter.requests, key), clock)
        /\ CountWithin(limiter.admitted[key], clock) <= LimitTable(key[2])
\* two activations for the same user raced for the last free slot: one was admitted
C17_Witness ==
    /\ \A a \in Activations : adapter[a].platform \in MetaPlatforms /\ adapter[a].userId = 0
    /\ adapter[1].allowed = "yes" /\ adapter[2].allowed = "no"
    /\ adapter[1].pc = "save" /\ adapter[2].pc = "replyLimited"
    /\ Len(limiter.requests[<<0, "message">>]) = LIMIT_MESSAGE

\* C18: no adapter writes an interaction record of a user message unless the rate
\* limiter admitted the message and its content passed the profanity and spam checks
\* before the write.
C18_WriteOnlyIfAdmitted ==
    \A a \in Activations :
        adapter[a].wrote => (adapter[a].allowed = "yes" /\ adapter[a].moderated)

\* C19: when the performBackup() awaited by the scheduled-task handler has failed, the
\* handler's result is the 500 response carrying the error message, an error alert with
\* that message was emitted before it returned, and the result is never a 200.
C19_BackupFailureSurfaced ==
    (handler.pc = "done" /\ RejectedRun(HandlerRun)) =>
        /\ handler.response.settled = "returned"
        /\ handler.response.statusCode = 500
        /\ handler.response.error # "none"
        /\ \E i \in DOMAIN handler.alerts :
              /\ handler.alerts[i].severity = "error"
              /\ handler.alerts[i].error = handler.response.error

\* C20: the records a backup scanned (the records its artifact stores) are the content
\* the record store had at one instant between the first and the last page of the scan,
\* so they never include a later-written record while missing an earlier-written one.
C20_PointInTimeSnapshot ==
    "scan" \in Range(run[SnapshotRun].log) => run[SnapshotRun].data \in adapter.instants

\* C21: against a store nobody writes, DynamoDBUtils.scan terminates; when it fulfils
\* it returns every record exactly once, in page order; when a page request fails it
\* rejects and hands no partial result to its caller.
C21_ScanCompleteAndTerminates ==
    /\ [](("scan" \in Range(run[ScanRun].log)) => run[ScanRun].data = store)
    /\ [](("scan failed" \in Range(run[ScanRun].log)) =>
              (run[ScanRun].data = <<>> /\ "scan" \notin Range(run[ScanRun].log)))
    /\ ((run[ScanRun].pc = "scan") ~> (run[ScanRun].pc # "scan"))
C21_Witness ==
    /\ "scan" \in Range(run[ScanRun].log)
    /\ Len(run[ScanRun].data) > ScanLimit
    /\ run[ScanRun].data = store

\* C22: the steps of one performBackup() run complete in the order scan, compress,
\* encrypt, upload (save, signed URL), metadata write, success notification; the
\* metadata row is written only after the upload completed and the artifact is stored,
\* and the success notification is sent only after the metadata row is in the table.
StepOrder ==
    <<"scan", "compress", "encrypt", "save", "upload", "metadata", "notify success">>
CompletedSteps(p) == SelectSeq(run[p].log, LAMBDA step : step \in Range(StepOrder))
C22_StrictStepOrder ==
    /\ [](\A p \in Runs :
            /\ Len(CompletedSteps(p)) <= Len(StepOrder)
            /\ CompletedSteps(p) = SubSeq(StepOrder, 1, Len(CompletedSteps(p))))
    /\ [][\A p \in Runs :
            /\ (MetadataWritten(p)' /\ ~MetadataWritten(p)) =>
                  /\ "upload" \in Range(run[p].log)
                  /\ ObjectsAt(run[p].path) # {}
            /\ (Len(notifications'[p]) > Len(notifications[p])
                   /\ notifications'[p][Len(notifications'[p])].success) =>
                  /\ MetadataWritten(p)
                  /\ \E row \in backupTable : row.backupId = run[p].backupId]_vars
C22_Witness ==
    Returned(ScanRun) /\ run[ScanRun].log = StepOrder

\* C23: right after an isAllowed call on a key returned, true or false, the list stored
\* for that key holds no timestamp 60,000 ms or more before the time of the call; right
\* after cleanup() no key holds one; a key that was neither checked nor swept may.
StaleAt(times, now) == {i \in DOMAIN times : now - times[i] >= WINDOW}
C23_NoStaleAfterCheck ==
    /\ limiter.last.op = "isAllowed" =>
          StaleAt(MapGet(limiter.requests, limiter.last.key), limiter.last.now) = {}
    /\ limiter.last.op = "cleanup" =>
          \A k \in DOMAIN limiter.requests : StaleAt(limiter.requests[k], limiter.last.now) = {}
C23_Witness ==
    /\ limiter.last.op = "isAllowed"
    /\ StaleAt(MapGet(limiter.last.before, limiter.last.key), limiter.last.now) # {}
    /\ \E k \in DOMAIN limiter.requests : StaleAt(limiter.requests[k], clock) # {}

\* C24: when compressData calls on the shared BackupSystem instance overlap, each call
\* resolves with the gzip of its own input, whatever the other call does.
C24_CompressOwnInput ==
    \A p \in Runs : run[p].pc = "encrypt" => run[p].compressed = Gzip(run[p].zin)

\* C25: what the Telegram handler writes and replies for an update depends only on the
\* update and the record store, not on the updates the process handled before: it takes
\* the branch a process that handled nothing before takes for the same update.
C25_IndependentOfEarlierUpdates ==
    telegram.pc # "idle" => telegram.route = telegram.freshRoute

\* C30: a 'ticket:category:*' or 'ticket:respond:*' callback leaves exactly that intent
\* pending for its user; a reply message of a user with a pending intent creates one
\* ticket or adds one response and clears the intent, unless the ticket operation
\* failed, which leaves the intent pending; a reply of a user without a pending intent
\* creates nothing; a message that is no reply leaves the intents untouched and is
\* stored as an interaction.
IntentCallback(u) == u.type = "callback_query" /\ u.data.kind \in {"category", "respond"}
PlainMessage(u) == u.type = "message" /\ u.text = "hello"
C30_CallbackSetsIntent ==
    LET u == telegram.update
    IN  (telegram.pc = "done" /\ IntentCallback(u)) =>
           /\ u.userId \in DOMAIN telegram.tempTicketData
           /\ telegram.tempTicketData = SetIntent(telegram.before, u)
C30_ReplyConsumesIntent ==
    LET u == telegram.update
    IN  (telegram.pc = "done" /\ PlainMessage(u) /\ u.isReply) =>
           IF u.userId \in DOMAIN telegram.before
           THEN IF telegram.failed \in {"create", "addResponse"}
                THEN /\ telegram.tempTicketData = telegram.before
                     /\ telegram.created + telegram.responded = 0
                ELSE /\ telegram.created + telegram.responded = 1
                     /\ u.userId \notin DOMAIN telegram.tempTicketData
           ELSE telegram.created + telegram.responded = 0
C30_NonReplyStored ==
    LET u == telegram.update
    IN  (telegram.pc = "done" /\ PlainMessage(u) /\ ~u.isReply) =>
           /\ telegram.tempTicketData = telegram.before
           /\ telegram.created + telegram.responded = 0
           /\ telegram.failed # "save" => telegram.stored = 1
C30_TicketDialogue ==
    C30_CallbackSetsIntent /\ C30_ReplyConsumesIntent /\ C30_NonReplyStored

\* C26: a generateReport() run that returned has added exactly one item to the record
\* table, of type 'report', and left every item that was there in place; a run whose
\* statistics computation failed has added no item and is rejected.
C26_OneReportRecord ==
    /\ (report.pc = "settled" /\ report.outcome = "returned") =>
          /\ report.before \subseteq report.items
          /\ Cardinality(report.items \ report.before) = 1
          /\ \A i \in report.items \ report.before : i.type = "report"
    /\ (report.pc = "settled" /\ report.error = "stats failed") =>
          /\ report.outcome = "rejected"
          /\ report.items = report.before

\* C27: a BACKUP_ENCRYPTION_KEY that is missing or does not decode from hex to exactly
\* 32 bytes makes the construction of the object-store client fail, so no backup run
\* reaches its upload step with such a key and no run is the first to find the error.
GoodKey(env) == env.defined /\ env.chars = 2 * KEY_LENGTH /\ env.hexPrefix = env.chars
C27_BadKeyFatalAtStartup ==
    /\ gcs.status = "constructed" => GoodKey(gcs.env)
    /\ \A p \in Runs :
          /\ run[p].pc = "encrypt" => GoodKey(gcs.env)
          /\ run[p].error # "Invalid key length"

\* C28: with taskType 'all' or absent the handler does not wait for performBackup()
\* once another task rejected: it can have returned its 500 response while the
\* performBackup() of the same invocation is in flight, which then still uploads and
\* writes its metadata row; a 200 response is returned only after all tasks fulfilled.
AllTasks == handler.taskType \in {"all", "absent"}
C28_OkOnlyAfterAllFulfilled ==
    (AllTasks /\ handler.response.statusCode = 200) =>
        /\ handler.others = "ok"
        /\ Returned(HandlerRun)
        /\ handler.response.runLog = run[HandlerRun].log
C28_Witness ==
    /\ AllTasks
    /\ handler.response.settled = "returned" /\ handler.response.statusCode = 500
    /\ handler.others = "failed"
    /\ "save" \notin Range(handler.response.runLog)
    /\ "save" \in Range(run[HandlerRun].log)
    /\ "metadata" \in Range(run[HandlerRun].log)

\* C29: in the WhatsApp, Facebook and Instagram handlers the rate-limit check comes
\* first and takes a slot: a message then refused as profane or spam is counted in its
\* sender's 'message' window; a message refused by the rate limit gets the rate-limit
\* notice whatever its content; and a refused message leads to exactly one reply request,
\* no write to the record store and no analytics read.
Refused(a) ==
    /\ adapter[a].platform \in MetaPlatforms
    /\ adapter[a].pc # "idle"
    /\ adapter[a].allowed = "no" \/ ~adapter[a].moderated
C29_LimitBeforeModeration ==
    \A a \in Activations :
        Refused(a) =>
           /\ ~adapter[a].wrote /\ adapter[a].reads = 0
           /\ Len(adapter[a].replied) <= 1
           /\ adapter[a].pc = "done" =>
                 adapter[a].replied =
                    <<IF adapter[a].allowed = "no" THEN "replyLimited"
                      ELSE IF ~isProfanityFree(adapter[a].content) THEN "replyProfane"
                      ELSE "replySpam">>
           /\ (adapter[a].allowed = "yes" /\ clock - adapter[a].at < WINDOW) =>
                 adapter[a].at \in Range(MapGet(limiter.requests,
                                                <<adapter[a].userId, "message">>))
C29_Witness ==
    \E a, b \in Activations :
        /\ Refused(a) /\ adapter[a].allowed = "yes" /\ adapter[a].pc = "done"
        /\ adapter[a].userId = adapter[b].userId
        /\ Refused(b) /\ adapter[b].allowed = "no" /\ adapter[b].pc = "done"
        /\ adapter[b].content = "badword1"

====
